---------------------------- MODULE Spec2Model ----------------------------
(***************************************************************************)
(* DWG-AutoFill: the column-to-tag matcher (src/src/mapper.py), the        *)
(* substitution step and the per-row batch driver (src/src/filler.py), and *)
(* the table reader they are fed by (src/src/io_manager.py).               *)
(*                                                                         *)
(* A Python str is a sequence of one-character strings, so that lower(),   *)
(* re.sub, str.replace, str.strip and the similarity score are computed    *)
(* character by character, as the code computes them.                      *)
(***************************************************************************)
EXTENDS Integers, Sequences, FiniteSets, TLC

(***************************************************************************)
(* Python str primitives                                                   *)
(***************************************************************************)

UpperChars == << "A","B","C","D","E","F","G","H","I","J","K","L","M",
                 "N","O","P","Q","R","S","T","U","V","W","X","Y","Z" >>

LowerChars == << "a","b","c","d","e","f","g","h","i","j","k","l","m",
                 "n","o","p","q","r","s","t","u","v","w","x","y","z" >>

DigitChars == << "0","1","2","3","4","5","6","7","8","9" >>

Range(f) == { f[i] : i \in DOMAIN f }

\* F applied to the value of x: x is evaluated once, before the call, as Python
\* evaluates an argument
Strict(F(_), x) == CHOOSE r \in { F(v) : v \in { x } } : TRUE

\* str.lower() on one character
LowerChar(c) ==
    IF \E i \in DOMAIN UpperChars : UpperChars[i] = c
    THEN LowerChars[CHOOSE i \in DOMAIN UpperChars : UpperChars[i] = c]
    ELSE c

\* str.lower()
Lower(s) == [ i \in 1..Len(s) |-> LowerChar(s[i]) ]

\* re.sub(r'[^a-z0-9]', '', s)
StripNonAlnum(s) ==
    SelectSeq(s, LAMBDA c : c \in Range(LowerChars) \cup Range(DigitChars))

\* s[i:i+len(k)] == k  (i is 1-based)
MatchAt(s, k, i) ==
    /\ i + Len(k) - 1 <= Len(s)
    /\ \A j \in 1..Len(k) : s[i + j - 1] = k[j]

\* k in s
Contains(s, k) == \E i \in 1..(Len(s) + 1) : MatchAt(s, k, i)

\* s.replace(k, v) for a non-empty k: the non-overlapping occurrences of k,
\* found left to right, are each replaced by v
RECURSIVE ReplaceFrom(_, _, _, _)
ReplaceFrom(s, k, v, i) ==
    IF i > Len(s) THEN << >>
    ELSE IF MatchAt(s, k, i) THEN v \o ReplaceFrom(s, k, v, i + Len(k))
    ELSE << s[i] >> \o ReplaceFrom(s, k, v, i + 1)

Replace(s, k, v) == ReplaceFrom(s, k, v, 1)

(***************************************************************************)
(* Bounds and input pools                                                  *)
(***************************************************************************)

\* A row value is [kind, s]: a str, a float NaN, None, or the list [1, 2] (a cell
\* of a .json data file)
StrVal(t) == [ kind |-> "str", s |-> t ]
NaN == [ kind |-> "nan", s |-> << >> ]
None == [ kind |-> "none", s |-> << >> ]
ListVal == [ kind |-> "list", s |-> << >> ]

\* longest string handed to _normalize on its own
MaxNameLen == 4
\* most columns of a table, most tags of a template handed to auto_map
MaxCols == 3
MaxTags == 3

\* Mapper.__init__: fuzzy_threshold: int = 70
DefaultThreshold == 70

Project_Name == << "P","r","o","j","e","c","t","_","N","a","m","e" >>
Address == << "A","d","d","r","e","s","s" >>
Power_kW == << "P","o","w","e","r","_","k","W" >>
Description == << "D","e","s","c","r","i","p","t","i","o","n" >>
Drawing == << "D","r","a","w","i","n","g" >>
PROJECTNAME == << "P","R","O","J","E","C","T","N","A","M","E" >>
ADDRESS == << "A","D","D","R","E","S","S" >>
POWER_KW == << "P","O","W","E","R","_","K","W" >>
DESC == << "D","E","S","C" >>
DRAWING_NUM == << "D","R","A","W","I","N","G","_","N","U","M" >>

\* column names of the loaded table, tags of the loaded template
ColumnPool == { Project_Name, Address, Power_kW, Description, Drawing }
TagPool == { PROJECTNAME, ADDRESS, POWER_KW, DESC, DRAWING_NUM }
\* a template whose tags differ in punctuation only, or in their last letter
POWERKW == << "P","O","W","E","R","K","W" >>
DRAWING_A == << "D","R","A","W","I","N","G","_","A" >>
DRAWING_B == << "D","R","A","W","I","N","G","_","B" >>
TieColumnPool == { Power_kW, Drawing }
TieTagPool == { POWER_KW, POWERKW, DRAWING_A, DRAWING_B }
\* the thresholds a Mapper is constructed with
Thresholds == { 0, DefaultThreshold, DefaultThreshold + 1, 100 }

\* heights (0, 0.25, 1.0, 2.5), coordinates (-1.0, 0, 50.0, 100.0) in eighths,
\* and alignment codes of the attributes _compute_attrib_bbox is tried on: the
\* horizontal codes 0 to 5 of DXF and the vertical codes 0 to 3, and a code on
\* either side of them
HeightPool == { 0, 2, 8, 20 }
CoordPool == { 0 - 8, 0, 400, 800 }
HalignPool == { 0 - 1, 0, 1, 2, 3, 4, 5, 6 }
ValignPool == { 0 - 1, 0, 1, 2, 3, 4 }

\* most INSERTs of a document handed to fill_document
MaxInserts == 1

\* the columns and tags of the documents, mappings and rows fill_document is tried on
FillCols == << Address, Description >>
FillTags == << ADDRESS, DESC >>
\* most INSERTs of a document whose fill is followed pair by pair
MaxInstances == 2
\* field texts of a template
TextPool == { << "a" >>, << "b", " " >> }
\* values of a row
ValuePool ==
    { NaN, None, ListVal, StrVal(<< >>), StrVal(<< "a" >>), StrVal(<< " ", "a" >>),
      StrVal(<< "b" >>) }

\* The names and tags of the mappings save_map is tried on are made of the
\* characters JSON treats specially and of one non-ASCII character, written
\* U+00E9: at most MaxJsonLen characters in a mapping of one entry, at most one
\* character in a mapping of up to MaxEntries entries.
MaxJsonLen == 2
MaxEntries == 2
JsonAlphabet == { "\"", "\\", "n", "\n", "U+00E9" }

\* most calls of export_pdf in a session
MaxExports == 2

\* most times the user asks for a preview
MaxPreviews == 2

\* most rows of a data file handed to read_table
MaxRows == 3

\* the row key batch_fill names the output file after
PROJECT_NAME == << "P","R","O","J","E","C","T","_","N","A","M","E" >>

\* characters of the strings _normalize is tried on
NormAlphabet == { "d", "e", "s", "c", "n", "o", "N", "_" }

\* all strings over S of length at most n
SeqsUpTo(S, n) == UNION { [ 1..k -> S ] : k \in 0..n }
\* those without a repeated element
InjSeqsUpTo(S, n) ==
    { q \in SeqsUpTo(S, n) : \A i, j \in 1..Len(q) : q[i] = q[j] => i = j }

NormInputs == SeqsUpTo(NormAlphabet, MaxNameLen) \cup ColumnPool \cup TagPool

\* the subsequences of q (its elements kept in order, each kept or dropped)
SubSeqs(q) ==
    { SelectSeq(q, LAMBDA x : x \in keep) : keep \in SUBSET Range(q) }

\* an ATTRIB of a template: its tag and text, and its geometry in eighths of a
\* unit; the templates have the field ADDRESS left-aligned on its baseline at
\* the origin and every other field right- and top-aligned at (100, 50), all
\* of height 2.5
Attrib(tag, text) ==
    [ tag |-> tag, text |-> text,
      insert |-> IF tag = ADDRESS THEN << 0, 0 >> ELSE << 800, 400 >>,
      height |-> 20,
      halign |-> IF tag = ADDRESS THEN 0 ELSE 2,
      valign |-> IF tag = ADDRESS THEN 0 ELSE 3 ]

\* the INSERTs of the pool: block TITLE with each tag absent or present with a
\* pool text, and one INSERT that carries the first tag twice
InsertPool ==
    { [ name |-> "TITLE", attribs |-> [ i \in 1..Len(tags) |-> Attrib(tags[i], txt[i]) ] ] :
         tags \in SubSeqs(FillTags), txt \in [ 1..Len(FillTags) -> TextPool ] }
    \cup { [ name |-> "TITLE",
             attribs |-> << Attrib(FillTags[1], << "a" >>),
                            Attrib(FillTags[1], << "b", " " >>) >> ] }

DocPool == SeqsUpTo(InsertPool, MaxInserts)

\* the INSERTs of the documents whose fill is followed pair by pair: block TITLE
\* with both fields, with the first field alone, with the first tag twice, and
\* block STAMP with the second field
LoopInsertPool ==
    { [ name |-> "TITLE",
        attribs |-> << Attrib(FillTags[1], << "a" >>), Attrib(FillTags[2], << "b", " " >>) >> ],
      [ name |-> "TITLE", attribs |-> << Attrib(FillTags[1], << "b", " " >>) >> ],
      [ name |-> "TITLE",
        attribs |-> << Attrib(FillTags[1], << "a" >>), Attrib(FillTags[1], << "b", " " >>) >> ],
      [ name |-> "STAMP", attribs |-> << Attrib(FillTags[2], << "a" >>) >> ] }
LoopDocPool == SeqsUpTo(LoopInsertPool, MaxInstances)

\* the dicts with the keys ks, in that order, and values from V
DictsOver(ks, V) ==
    { [ i \in 1..Len(ks) |-> << ks[i], vs[i] >> ] : vs \in [ 1..Len(ks) -> V ] }

\* rows: each column of FillCols absent or present with a pool value
RowPool == UNION { DictsOver(ks, ValuePool) : ks \in SubSeqs(FillCols) }

\* The data files batch_fill is run on have the column Address alone, or the
\* columns PROJECT_NAME and Address. A row whose cells are all NaN is a fully
\* empty row of the file.
BatchRowsA == DictsOver(<< Address >>, { NaN, StrVal(<< "a" >>), StrVal(<< "b" >>), ListVal })
BatchRowsB ==
    { << << PROJECT_NAME, NaN >>, << Address, NaN >> >>,
      << << PROJECT_NAME, StrVal(<< "p", " ", "q" >>) >>, << Address, StrVal(<< "a" >>) >> >>,
      << << PROJECT_NAME, StrVal(<< "p", " ", "q" >>) >>, << Address, NaN >> >>,
      << << PROJECT_NAME, NaN >>, << Address, StrVal(<< "b" >>) >> >> }
RawTablePool == SeqsUpTo(BatchRowsA, MaxRows) \cup SeqsUpTo(BatchRowsB, MaxRows)

\* the template: one INSERT of block TITLE with the fields ADDRESS and DESC
BatchTemplate ==
    << [ name |-> "TITLE",
         attribs |-> << Attrib(ADDRESS, << "a" >>),
                        Attrib(DESC, << "b", " " >>) >> ] >>

\* the mappings batch_fill is run with; the column Description is in no data file
BatchMappingPool ==
    { << << Address, ADDRESS >> >>,
      << << Description, DESC >>, << Address, DESC >> >> }

JsonStrings == SeqsUpTo(JsonAlphabet, MaxJsonLen)
ShortStrings == SeqsUpTo(JsonAlphabet, 1)
\* mappings: any of the columns, in any order, each bound to any tag
MappingPool ==
    UNION { DictsOver(ks, Range(FillTags)) : ks \in InjSeqsUpTo(Range(FillCols), Len(FillCols)) }

(***************************************************************************)
(* Mapper._normalize                                                       *)
(***************************************************************************)

\* Mapper.SYNONYMS, in the dict's declared (iteration) order
SYNONYMS ==
    << << <<"d","e","s","c">>, <<"d","e","s","c","r","i","p","t","i","o","n">> >>,
       << <<"a","d","d","r">>, <<"a","d","d","r","e","s","s">> >>,
       << <<"p","o","w","e","r">>, <<"k","w">> >>,
       << <<"p","r","o","j","e","c","t">>,
          <<"p","r","o","j","e","c","t","n","a","m","e">> >>,
       << <<"n","u","m">>, <<"n","u","m","b","e","r">> >>,
       << <<"n","o">>, <<"n","u","m","b","e","r">> >> >>

\* the loop `for k, v in self.SYNONYMS.items()` from entry i on
RECURSIVE ApplySynonyms(_, _)
ApplySynonyms(name, i) ==
    IF i > Len(SYNONYMS) THEN name
    ELSE LET k == SYNONYMS[i][1]
             v == SYNONYMS[i][2]
         IN  Strict(LAMBDA n : ApplySynonyms(n, i + 1),
                    IF Contains(name, k) THEN Replace(name, k, v) ELSE name)

\* Mapper._normalize, computed
NormalizeStr(name) ==
    Strict(LAMBDA n : ApplySynonyms(n, 1), StripNonAlnum(Lower(name)))

\* _normalize of the pool's names, computed once: pairs (name, normalized name)
NormalizeMemo ==
    { << n, NormalizeStr(n) >> : n \in ColumnPool \cup TagPool \cup TieTagPool }

\* Mapper._normalize
Normalize(name) ==
    IF \E m \in NormalizeMemo : m[1] = name
    THEN (CHOOSE m \in NormalizeMemo : m[1] = name)[2]
    ELSE NormalizeStr(name)

(***************************************************************************)
(* rapidfuzz: fuzz.ratio and process.extractOne                            *)
(***************************************************************************)

Max(a, b) == IF a >= b THEN a ELSE b

\* One row of the longest-common-subsequence table: prev[j+1] is the LCS length
\* of a[1..i-1] and b[1..j]; the result is the same for a[1..i], ch = a[i].
RECURSIVE LcsRow(_, _, _, _)
LcsRow(prev, ch, b, acc) ==
    LET j == Len(acc)
    IN  IF j > Len(b) THEN acc
        ELSE Strict(LAMBDA nxt : LcsRow(prev, ch, b, nxt),
                    Append(acc, IF ch = b[j] THEN prev[j] + 1
                                ELSE Max(prev[j + 1], acc[j])))

RECURSIVE LcsRows(_, _, _, _)
LcsRows(a, b, i, prev) ==
    IF i > Len(a) THEN prev[Len(b) + 1]
    ELSE Strict(LAMBDA row : LcsRows(a, b, i + 1, row),
                LcsRow(prev, a[i], b, << 0 >>))

\* length of the longest common subsequence of a and b, computed
LcsLen(a, b) ==
    Strict(LAMBDA p : LcsRows(p[1], p[2], 1, [ j \in 1..(Len(p[2]) + 1) |-> 0 ]),
           << a, b >>)

\* the same for the normalized names of the pool, computed once: triples
\* (normalized column, normalized tag, length)
LcsMemo ==
    { << c[2], t[2], LcsLen(c[2], t[2]) >> :
         c \in { m \in NormalizeMemo : m[1] \in ColumnPool },
         t \in { m \in NormalizeMemo : m[1] \in TagPool \cup TieTagPool } }

\* length of the longest common subsequence of a and b
LCS(a, b) ==
    IF \E m \in LcsMemo : m[1] = a /\ m[2] = b
    THEN (CHOOSE m \in LcsMemo : m[1] = a /\ m[2] = b)[3]
    ELSE LcsLen(a, b)

\* fuzz.ratio(a, b) = 100 * (1 - indel_distance / (len(a) + len(b)))
\*                  = 200 * LCS / (len(a) + len(b)), and 100 for two empty strings.
\* The score is kept as the exact fraction num/den (the code holds a float).
Ratio(a, b) ==
    Strict(LAMBDA p : IF Len(p[1]) + Len(p[2]) = 0 THEN [ num |-> 100, den |-> 1 ]
                      ELSE [ num |-> 200 * LCS(p[1], p[2]),
                             den |-> Len(p[1]) + Len(p[2]) ],
           << a, b >>)

\* score r compared with an integer t
ScoreGE(r, t) == r.num >= t * r.den
ScoreGT(r, t) == r.num > t * r.den
\* score r strictly above score q
ScoreAbove(r, q) == r.num * q.den > q.num * r.den

\* process.extractOne(query, choices, scorer=fuzz.ratio) from choice i on, cur being
\* the best so far as (match, score, index): a later choice replaces it only with
\* a strictly higher score
RECURSIVE ExtractFrom(_, _, _, _)
ExtractFrom(query, choices, i, cur) ==
    IF i > Len(choices) THEN cur
    ELSE Strict(LAMBDA r : ExtractFrom(query, choices, i + 1,
                                       IF ScoreAbove(r, cur[2])
                                       THEN << choices[i], r, i >> ELSE cur),
                Ratio(query, choices[i]))

\* for a non-empty list of choices
ExtractOne(query, choices) ==
    Strict(LAMBDA p : ExtractFrom(p[1], p[2], 2, << p[2][1], Ratio(p[1], p[2][1]), 1 >>),
           << query, choices >>)

(***************************************************************************)
(* Python dict: insertion-ordered sequence of <<key, value>> with unique   *)
(* keys.                                                                   *)
(***************************************************************************)

DictKeys(d) == [ i \in 1..Len(d) |-> d[i][1] ]
DictHas(d, k) == \E i \in 1..Len(d) : d[i][1] = k
DictGet(d, k) == d[CHOOSE i \in 1..Len(d) : d[i][1] = k][2]
\* d[k] = v: an existing key keeps its place, a new key goes last
DictSetValues(d, k, v) ==
    IF DictHas(d, k)
    THEN [ i \in 1..Len(d) |-> IF d[i][1] = k THEN << k, v >> ELSE d[i] ]
    ELSE Append(d, << k, v >>)

DictSet(d, k, v) == Strict(LAMBDA p : DictSetValues(p[1], p[2], p[3]), << d, k, v >>)

\* {self._normalize(attr): attr for attr in dxf_attributes}
RECURSIVE NormalizedAttrsFrom(_, _, _)
NormalizedAttrsFrom(attrs, i, d) ==
    IF i > Len(attrs) THEN d
    ELSE Strict(LAMBDA nxt : NormalizedAttrsFrom(attrs, i + 1, nxt),
                DictSet(d, Normalize(attrs[i]), attrs[i]))

NormalizedAttrs(attrs) == NormalizedAttrsFrom(attrs, 1, << >>)

(***************************************************************************)
(* Filler._compute_attrib_bbox                                             *)
(*                                                                         *)
(* Coordinates and heights are counted in eighths of a drawing unit, so    *)
(* that the halves the code takes are whole: 2.5 is 20, 100.0 is 800.      *)
(***************************************************************************)

\* text_width = text_height * 5
WidthFactor == 5

\* the geometry of an ATTRIB: insertion point (x, y), height, alignment codes
Geometry(x, y, h, ha, va) ==
    [ insert |-> << x, y >>, height |-> h, halign |-> ha, valign |-> va ]

NoAttrib == Geometry(0, 0, 0, 0, 0)

\* a slip the code could have made: bottom alignment put under the insertion
\* point, as top alignment is
ComputeAttribBboxBottomAsTop(attrib) ==
    LET x == attrib.insert[1]
        y == attrib.insert[2]
        text_height == attrib.height
        text_width == text_height * WidthFactor
        xs == IF attrib.halign = 0 THEN << x, x + text_width >>
              ELSE IF attrib.halign = 1
                   THEN << x - text_width \div 2, x + text_width \div 2 >>
              ELSE IF attrib.halign = 2 THEN << x - text_width, x >>
              ELSE << x, x + text_width >>
        ys == IF attrib.valign = 0 THEN << y, y + text_height >>
              ELSE IF attrib.valign = 2
                   THEN << y - text_height \div 2, y + text_height \div 2 >>
              ELSE IF attrib.valign = 3 \/ attrib.valign = 1 THEN << y - text_height, y >>
              ELSE << y, y + text_height >>
    IN  << xs[1], ys[1], xs[2], ys[2] >>

\* lines 19-64: (xmin, ymin, xmax, ymax)
ComputeAttribBbox(attrib) ==
    LET x == attrib.insert[1]
        y == attrib.insert[2]
        text_height == attrib.height
        text_width == text_height * WidthFactor
        xs == IF attrib.halign = 0 THEN << x, x + text_width >>
              ELSE IF attrib.halign = 1
                   THEN << x - text_width \div 2, x + text_width \div 2 >>
              ELSE IF attrib.halign = 2 THEN << x - text_width, x >>
              ELSE << x, x + text_width >>
        ys == IF attrib.valign = 0 \/ attrib.valign = 1 THEN << y, y + text_height >>
              ELSE IF attrib.valign = 2
                   THEN << y - text_height \div 2, y + text_height \div 2 >>
              ELSE IF attrib.valign = 3 THEN << y - text_height, y >>
              ELSE << y, y + text_height >>
    IN  << xs[1], ys[1], xs[2], ys[2] >>

(***************************************************************************)
(* Filler.fill_document                                                    *)
(*                                                                         *)
(* A document is the sequence of the INSERTs of its modelspace; an INSERT  *)
(* is [name, attribs], attribs the sequence of its fields: tag, text and   *)
(* geometry.                                                               *)
(***************************************************************************)

\* str(value)
Str(value) ==
    CASE value.kind = "str" -> value.s
      [] value.kind = "nan" -> << "n", "a", "n" >>
      [] value.kind = "none" -> << "N", "o", "n", "e" >>
      [] OTHER -> << "[", "1", ",", " ", "2", "]" >>

Whitespace == { " " }

\* str.strip()
RECURSIVE LStrip(_)
LStrip(t) == IF t # << >> /\ Head(t) \in Whitespace THEN LStrip(Tail(t)) ELSE t

RECURSIVE RStrip(_)
RStrip(t) ==
    IF t # << >> /\ t[Len(t)] \in Whitespace THEN RStrip(SubSeq(t, 1, Len(t) - 1)) ELSE t

StripText(t) == RStrip(LStrip(t))

\* row.get(col_name): None when the row has no such key
RowGet(row, col) == IF DictHas(row, col) THEN DictGet(row, col) ELSE None

\* `value is None or pd.isna(value)` raises ValueError for a list of several
\* items: the truth value of the array pd.isna returns is ambiguous
IsNaRaises(value) == value.kind = "list"
\* value is None or pd.isna(value)
IsNa(value) == value.kind \in { "none", "nan" }

\* insert.has_attrib(tag)
HasAttrib(insert, tag) == \E a \in 1..Len(insert.attribs) : insert.attribs[a].tag = tag
\* insert.get_attrib(tag): the first attribute with the tag
AttribIndex(insert, tag) ==
    CHOOSE a \in 1..Len(insert.attribs) :
       /\ insert.attribs[a].tag = tag
       /\ \A b \in 1..(a - 1) : insert.attribs[b].tag # tag

\* attrib.dxf.text = new_text on attribute a of INSERT i
SetText(doc, i, a, new_text) ==
    [ doc EXCEPT ![i].attribs[a].text = new_text ]

\* a slip the code could have made: no test for an unchanged value, the field is
\* written and recorded every time
FillEntryAlwaysWrites(st, i, col_name, attrib_tag, row) ==
    LET value == RowGet(row, col_name)
        insert == st.doc[i]
    IN  IF st.raised THEN st
        ELSE IF IsNaRaises(value) THEN [ st EXCEPT !.raised = TRUE ]
        ELSE IF IsNa(value) THEN st
        ELSE IF ~ HasAttrib(insert, attrib_tag) THEN st
        ELSE LET a == AttribIndex(insert, attrib_tag)
                 new_text == Str(value)
             IN  [ st EXCEPT
                     !.doc = SetText(st.doc, i, a, new_text),
                     !.changed = Append(st.changed,
                         [ handle |-> << i, a >>,
                           bbox |-> ComputeAttribBbox(insert.attribs[a]),
                           attribute_tag |-> attrib_tag,
                           new_value |-> new_text,
                           block_name |-> insert.name ]) ]

\* a slip the code could have made: a field is added to an INSERT that has none
\* with the tag
FillEntryCreatesMissingField(st, i, col_name, attrib_tag, row) ==
    LET value == RowGet(row, col_name)
        insert == st.doc[i]
    IN  IF st.raised THEN st
        ELSE IF IsNaRaises(value) THEN [ st EXCEPT !.raised = TRUE ]
        ELSE IF IsNa(value) THEN st
        ELSE IF ~ HasAttrib(insert, attrib_tag)
             THEN [ st EXCEPT !.doc[i].attribs = Append(@, Attrib(attrib_tag, Str(value))) ]
        ELSE LET a == AttribIndex(insert, attrib_tag)
                 new_text == Str(value)
             IN  IF StripText(insert.attribs[a].text) # StripText(new_text)
                 THEN [ st EXCEPT
                          !.doc = SetText(st.doc, i, a, new_text),
                          !.changed = Append(st.changed,
                              [ handle |-> << i, a >>,
                                bbox |-> ComputeAttribBbox(insert.attribs[a]),
                                attribute_tag |-> attrib_tag,
                                new_value |-> new_text,
                                block_name |-> insert.name ]) ]
                 ELSE st

\* a slip the code could have made: the record carries the trimmed value
FillEntryRecordsTrimmed(st, i, col_name, attrib_tag, row) ==
    LET value == RowGet(row, col_name)
        insert == st.doc[i]
    IN  IF st.raised THEN st
        ELSE IF IsNaRaises(value) THEN [ st EXCEPT !.raised = TRUE ]
        ELSE IF IsNa(value) THEN st
        ELSE IF ~ HasAttrib(insert, attrib_tag) THEN st
        ELSE LET a == AttribIndex(insert, attrib_tag)
                 new_text == Str(value)
             IN  IF StripText(insert.attribs[a].text) # StripText(new_text)
                 THEN [ st EXCEPT
                          !.doc = SetText(st.doc, i, a, new_text),
                          !.changed = Append(st.changed,
                              [ handle |-> << i, a >>,
                                bbox |-> ComputeAttribBbox(insert.attribs[a]),
                                attribute_tag |-> attrib_tag,
                                new_value |-> StripText(new_text),
                                block_name |-> insert.name ]) ]
                 ELSE st

\* lines 76-107: the body of the two loops for INSERT i and the mapping entry
\* (col_name, attrib_tag); st is [doc, changed, raised]
FillEntry(st, i, col_name, attrib_tag, row) ==
    LET value == RowGet(row, col_name)
        insert == st.doc[i]
    IN  IF st.raised THEN st
        ELSE IF IsNaRaises(value) THEN [ st EXCEPT !.raised = TRUE ]
        ELSE IF IsNa(value) THEN st
        ELSE IF ~ HasAttrib(insert, attrib_tag) THEN st
        ELSE LET a == AttribIndex(insert, attrib_tag)
                 new_text == Str(value)
             IN  IF StripText(insert.attribs[a].text) # StripText(new_text)
                 THEN [ st EXCEPT
                          !.doc = SetText(st.doc, i, a, new_text),
                          !.changed = Append(st.changed,
                              [ handle |-> << i, a >>,
                                bbox |-> ComputeAttribBbox(insert.attribs[a]),
                                attribute_tag |-> attrib_tag,
                                new_value |-> new_text,
                                block_name |-> insert.name ]) ]
                 ELSE st

\* lines 74-76: the loops, from the n-th (INSERT, mapping entry) pair on, the
\* mapping being the inner loop
RECURSIVE FillFrom(_, _, _, _)
FillFrom(st, fmap, row, n) ==
    IF n > Len(st.doc) * Len(fmap) THEN st
    ELSE LET i == ((n - 1) \div Len(fmap)) + 1
             j == ((n - 1) % Len(fmap)) + 1
         IN  Strict(LAMBDA nxt : FillFrom(nxt, fmap, row, n + 1),
                    FillEntry(st, i, fmap[j][1], fmap[j][2], row))

\* fill_document(doc, mapping, row): the document as it is left, the
\* changed-entity list, and whether the call raised
FillDocument(doc, fmap, row) ==
    Strict(LAMBDA p : FillFrom([ doc |-> p[1], changed |-> << >>, raised |-> FALSE ],
                               p[2], p[3], 1),
           << doc, fmap, row >>)

(***************************************************************************)
(* State                                                                   *)
(***************************************************************************)

VARIABLES
    \* one call of _normalize, and a second call on its result
    norm_in, norm_out, norm_out2, norm_pc,
    \* Mapper: the configured threshold, and one call of auto_map
    fuzzy_threshold, df_columns, dxf_attributes,
    normalized_attrs, mapping, am_i, am_step, am_pc,
    \* one call of fill_document on fd_doc, and a second call on the document the
    \* first returned; fd_first and fd_second are what the calls left:
    \* [doc, changed, raised]
    fd_doc, fd_mapping, fd_row, fd_first, fd_second, fd_pc,
    \* the number of (INSERT, mapping entry) pairs the loops of one call have
    \* been through, when the call is followed pair by pair
    fd_n,
    \* the data file (its rows, fully empty ones included) and the DataFrame
    \* read_table makes of it: a sequence of [index, row]
    raw_table, dataframe,
    \* the template file at dwg_path, the mapping, whether out_dir exists, the
    \* files saved in out_dir (a dict from file name to document)
    dwg_file, bf_mapping, out_dir_exists, files,
    \* the document instances load_dwg has returned; a document is named by its
    \* position in heap
    heap,
    \* batch_fill: the report, the number of rows iterated, the locals of the
    \* current iteration, and the position in the code
    report, bf_pos, bf, bf_pc,
    \* trace of the calls batch_fill made: [op, pos, doc, ok, before]
    calls,
    \* one call of _compute_attrib_bbox: the attribute, the tuple returned
    bb_attrib, bb_out, bb_pc,
    \* DWGAutoFillGUI: current_doc and current_data_df (<< >> for None),
    \* current_mapping, changed_entities
    current_doc, current_data_df, current_mapping, changed_entities,
    \* _preview_document: temp_doc, the exception in flight, what the user was
    \* shown, the three attributes as they were when the handler was entered, the
    \* number of previews asked for, the position in the code
    pv_temp, pv_exc, pv_popup, pv_before, pv_count, pv_pc,
    \* AutoCADBridge.is_available; one call of export_pdf: the method entered
    \* first, the AutoCAD document (none, open, closed), the value the try block
    \* is returning, what happened on the way; the log of the finished calls;
    \* the position in the code
    is_available, ex_entry, ex_doc, ex_ret, ex_events, ex_log, ex_pc,
    \* the bridge's acad_app ("handle" or "none") and the number of documents it
    \* has opened in AutoCAD that are still open
    acad_app, open_docs,
    \* save_map and load_map: the mapping handed to save_map, the text of the
    \* file at path (<< >> while there is no file), what load_map returned as
    \* [ok, val], the position
    pm_mapping, pm_file, pm_loaded, pm_pc

normVars == << norm_in, norm_out, norm_out2, norm_pc >>
mapVars == << fuzzy_threshold, df_columns, dxf_attributes,
              normalized_attrs, mapping, am_i, am_step, am_pc >>
fillVars == << fd_doc, fd_mapping, fd_row, fd_first, fd_second, fd_pc, fd_n >>
bboxVars == << bb_attrib, bb_out, bb_pc >>
batchVars == << raw_table, dataframe, dwg_file, bf_mapping, out_dir_exists, files,
                heap, report, bf_pos, bf, bf_pc, calls >>
guiVars == << current_doc, current_data_df, current_mapping, changed_entities,
             pv_temp, pv_exc, pv_popup, pv_before, pv_count, pv_pc >>
\* what the other operations work on
exportVars == << is_available, ex_entry, ex_doc, ex_ret, ex_events, ex_log, ex_pc,
                acad_app, open_docs >>
persistVars == << pm_mapping, pm_file, pm_loaded, pm_pc >>
toolVars == << bboxVars, guiVars, exportVars, persistVars >>
vars == << normVars, mapVars, fillVars, batchVars, toolVars >>

NormIdle ==
    /\ norm_in = << >>
    /\ norm_out = << >>
    /\ norm_out2 = << >>
    /\ norm_pc = "idle"

MapIdle ==
    /\ fuzzy_threshold = DefaultThreshold
    /\ df_columns = << >>
    /\ dxf_attributes = << >>
    /\ normalized_attrs = << >>
    /\ mapping = << >>
    /\ am_i = 0
    /\ am_step = << >>
    /\ am_pc = "idle"

NoFill == [ doc |-> << >>, changed |-> << >>, raised |-> FALSE ]

FillIdle ==
    /\ fd_doc = << >>
    /\ fd_mapping = << >>
    /\ fd_row = << >>
    /\ fd_first = NoFill
    /\ fd_second = NoFill
    /\ fd_pc = "idle"
    /\ fd_n = 0

NoReport == [ total_rows |-> 0, success_count |-> 0, failed_count |-> 0, results |-> << >> ]
\* "absent" stands for Python's None in a local, << >>-valued fields aside
NoLocals ==
    [ row |-> << >>, row_id |-> 0, status |-> "SUCCESS", error_message |-> "absent",
      changed_entities |-> << >>, out_path |-> << >>, doc |-> 0, exc |-> "absent" ]

BatchIdle ==
    /\ raw_table = << >>
    /\ dataframe = << >>
    /\ dwg_file = << >>
    /\ bf_mapping = << >>
    /\ out_dir_exists = FALSE
    /\ files = << >>
    /\ heap = << >>
    /\ report = NoReport
    /\ bf_pos = 0
    /\ bf = NoLocals
    /\ bf_pc = "idle"
    /\ calls = << >>

NoBbox == << 0, 0, 0, 0 >>

BboxIdle ==
    /\ bb_attrib = NoAttrib
    /\ bb_out = NoBbox
    /\ bb_pc = "idle"

NoSnapshot == [ current_doc |-> << >>, current_mapping |-> << >>, changed_entities |-> << >> ]

GuiIdle ==
    /\ current_doc = << >>
    /\ current_data_df = << >>
    /\ current_mapping = << >>
    /\ changed_entities = << >>
    /\ pv_temp = << >>
    /\ pv_exc = "absent"
    /\ pv_popup = "absent"
    /\ pv_before = NoSnapshot
    /\ pv_count = 0
    /\ pv_pc = "idle"

ExportIdle ==
    /\ is_available = FALSE
    /\ ex_entry = "none"
    /\ ex_doc = "none"
    /\ ex_ret = "none"
    /\ ex_events = { }
    /\ ex_log = << >>
    /\ ex_pc = "idle"
    /\ acad_app = "none"
    /\ open_docs = 0

NotLoaded == [ ok |-> FALSE, val |-> << >> ]

PersistIdle ==
    /\ pm_mapping = << >>
    /\ pm_file = << >>
    /\ pm_loaded = NotLoaded
    /\ pm_pc = "idle"

ToolIdle == BboxIdle /\ GuiIdle /\ ExportIdle /\ PersistIdle

(***************************************************************************)
(* _normalize applied once and twice                                       *)
(***************************************************************************)

InitNormalize ==
    /\ norm_in \in NormInputs
    /\ norm_out = << >>
    /\ norm_out2 = << >>
    /\ norm_pc = "in"
    /\ MapIdle
    /\ FillIdle
    /\ BatchIdle
    /\ ToolIdle

NormalizeOnce ==
    /\ norm_pc = "in"
    /\ norm_out' = Normalize(norm_in)
    /\ norm_pc' = "once"
    /\ UNCHANGED << norm_in, norm_out2, mapVars, fillVars, batchVars, toolVars >>

NormalizeTwice ==
    /\ norm_pc = "once"
    /\ norm_out2' = Normalize(norm_out)
    /\ norm_pc' = "twice"
    /\ UNCHANGED << norm_in, norm_out, mapVars, fillVars, batchVars, toolVars >>

NextNormalize == NormalizeOnce \/ NormalizeTwice

SpecNormalize == InitNormalize /\ [][NextNormalize]_vars

(***************************************************************************)
(* Mapper.auto_map                                                         *)
(***************************************************************************)

\* Column names of a table are distinct (pandas de-duplicates headers, JSON keys
\* are unique); tags are the keys of the dict get_dxf_attributes returns.
InitMapper ==
    /\ fuzzy_threshold \in Thresholds
    /\ df_columns \in InjSeqsUpTo(ColumnPool, MaxCols)
    /\ dxf_attributes \in InjSeqsUpTo(TagPool, MaxTags)
    /\ normalized_attrs = << >>
    /\ mapping = << >>
    /\ am_i = 0
    /\ am_step = << >>
    /\ am_pc = "call"
    /\ NormIdle
    /\ FillIdle
    /\ BatchIdle
    /\ ToolIdle

\* lines 46-50: mapping = {}, normalized_attrs, normalized_attr_list
AutoMapBegin ==
    /\ am_pc = "call"
    /\ mapping' = << >>
    /\ normalized_attrs' = NormalizedAttrs(dxf_attributes)
    /\ am_i' = 1
    /\ am_step' = << >>
    /\ am_pc' = "loop"
    /\ UNCHANGED << fuzzy_threshold, df_columns, dxf_attributes, normVars, fillVars, batchVars, toolVars >>

\* a slip the code could have made: the normalized name is stored, not the tag
AutoMapExactStoresNormalized ==
    /\ am_pc = "loop"
    /\ am_i <= Len(df_columns)
    /\ LET col == df_columns[am_i]
           normalized_col == Normalize(col)
       IN  /\ DictHas(normalized_attrs, normalized_col)
           /\ mapping' = DictSet(mapping, col, normalized_col)
    /\ am_step' = Append(am_step, "exact")
    /\ am_i' = am_i + 1
    /\ UNCHANGED << fuzzy_threshold, df_columns, dxf_attributes, normalized_attrs,
                    am_pc, normVars, fillVars, batchVars, toolVars >>

\* lines 55-58: the exact match on the normalized name
AutoMapExact ==
    /\ am_pc = "loop"
    /\ am_i <= Len(df_columns)
    /\ LET col == df_columns[am_i]
           normalized_col == Normalize(col)
       IN  /\ DictHas(normalized_attrs, normalized_col)
           /\ mapping' = DictSet(mapping, col, DictGet(normalized_attrs, normalized_col))
    /\ am_step' = Append(am_step, "exact")
    /\ am_i' = am_i + 1
    /\ UNCHANGED << fuzzy_threshold, df_columns, dxf_attributes, normalized_attrs,
                    am_pc, normVars, fillVars, batchVars, toolVars >>

\* a slip the code could have made: score > threshold
AutoMapFuzzyStrict ==
    /\ am_pc = "loop"
    /\ am_i <= Len(df_columns)
    /\ LET col == df_columns[am_i]
           normalized_col == Normalize(col)
           normalized_attr_list == DictKeys(normalized_attrs)
       IN  /\ ~ DictHas(normalized_attrs, normalized_col)
           /\ normalized_attr_list # << >>
           /\ LET one == ExtractOne(normalized_col, normalized_attr_list)
              IN  IF ScoreGT(one[2], fuzzy_threshold)
                  THEN /\ mapping' = DictSet(mapping, col, DictGet(normalized_attrs, one[1]))
                       /\ am_step' = Append(am_step, "fuzzy")
                  ELSE /\ mapping' = mapping
                       /\ am_step' = Append(am_step, "none")
    /\ am_i' = am_i + 1
    /\ UNCHANGED << fuzzy_threshold, df_columns, dxf_attributes, normalized_attrs,
                    am_pc, normVars, fillVars, batchVars, toolVars >>

\* lines 60-71: the fuzzy match, bound when score >= self.fuzzy_threshold
AutoMapFuzzy ==
    /\ am_pc = "loop"
    /\ am_i <= Len(df_columns)
    /\ LET col == df_columns[am_i]
           normalized_col == Normalize(col)
           normalized_attr_list == DictKeys(normalized_attrs)
       IN  /\ ~ DictHas(normalized_attrs, normalized_col)
           /\ normalized_attr_list # << >>
           /\ LET one == ExtractOne(normalized_col, normalized_attr_list)
              IN  IF ScoreGE(one[2], fuzzy_threshold)
                  THEN /\ mapping' = DictSet(mapping, col, DictGet(normalized_attrs, one[1]))
                       /\ am_step' = Append(am_step, "fuzzy")
                  ELSE /\ mapping' = mapping
                       /\ am_step' = Append(am_step, "none")
    /\ am_i' = am_i + 1
    /\ UNCHANGED << fuzzy_threshold, df_columns, dxf_attributes, normalized_attrs,
                    am_pc, normVars, fillVars, batchVars, toolVars >>

\* line 61 false: no tag at all, the column gets no entry
AutoMapNoAttrs ==
    /\ am_pc = "loop"
    /\ am_i <= Len(df_columns)
    /\ ~ DictHas(normalized_attrs, Normalize(df_columns[am_i]))
    /\ DictKeys(normalized_attrs) = << >>
    /\ am_step' = Append(am_step, "none")
    /\ am_i' = am_i + 1
    /\ UNCHANGED << fuzzy_threshold, df_columns, dxf_attributes, normalized_attrs,
                    mapping, am_pc, normVars, fillVars, batchVars, toolVars >>

\* line 73: return mapping
AutoMapReturn ==
    /\ am_pc = "loop"
    /\ am_i > Len(df_columns)
    /\ am_pc' = "done"
    /\ UNCHANGED << fuzzy_threshold, df_columns, dxf_attributes, normalized_attrs,
                    mapping, am_i, am_step, normVars, fillVars, batchVars, toolVars >>

NextMapper ==
    \/ AutoMapBegin
    \/ AutoMapExact
    \/ AutoMapFuzzy
    \/ AutoMapNoAttrs
    \/ AutoMapReturn

SpecMapper == InitMapper /\ [][NextMapper]_vars

\* auto_map on a template with equally good tags
InitTies ==
    /\ fuzzy_threshold \in Thresholds
    /\ df_columns \in InjSeqsUpTo(TieColumnPool, MaxCols)
    /\ dxf_attributes \in InjSeqsUpTo(TieTagPool, MaxTags)
    /\ normalized_attrs = << >>
    /\ mapping = << >>
    /\ am_i = 0
    /\ am_step = << >>
    /\ am_pc = "call"
    /\ NormIdle
    /\ FillIdle
    /\ BatchIdle
    /\ ToolIdle

SpecTies == InitTies /\ [][NextMapper]_vars

(***************************************************************************)
(* Filler._compute_attrib_bbox called once                                 *)
(***************************************************************************)

InitBbox ==
    /\ bb_attrib \in { Geometry(x, y, h, ha, va) :
                           x \in CoordPool, y \in CoordPool, h \in HeightPool,
                           ha \in HalignPool, va \in ValignPool }
    /\ bb_out = NoBbox
    /\ bb_pc = "call"
    /\ NormIdle
    /\ MapIdle
    /\ FillIdle
    /\ BatchIdle
    /\ GuiIdle
    /\ ExportIdle
    /\ PersistIdle

ComputeBbox ==
    /\ bb_pc = "call"
    /\ bb_out' = ComputeAttribBbox(bb_attrib)
    /\ bb_pc' = "done"
    /\ UNCHANGED << bb_attrib, normVars, mapVars, fillVars, batchVars, guiVars,
                    exportVars, persistVars >>

NextBbox == ComputeBbox

SpecBbox == InitBbox /\ [][NextBbox]_vars

(***************************************************************************)
(* Filler.fill_document called twice                                       *)
(***************************************************************************)

InitFill ==
    /\ fd_doc \in DocPool
    /\ fd_mapping \in MappingPool
    /\ fd_row \in RowPool
    /\ fd_first = NoFill
    /\ fd_second = NoFill
    /\ fd_pc = "call"
    /\ fd_n = 0
    /\ NormIdle
    /\ MapIdle
    /\ BatchIdle
    /\ ToolIdle

\* fill_document(doc, mapping, row)
FillFirst ==
    /\ fd_pc = "call"
    /\ fd_first' = FillDocument(fd_doc, fd_mapping, fd_row)
    /\ fd_pc' = IF fd_first'.raised THEN "raised" ELSE "once"
    /\ UNCHANGED << fd_doc, fd_mapping, fd_row, fd_second, fd_n, normVars, mapVars, batchVars, toolVars >>

\* fill_document(doc_filled, mapping, row) on the document the first call returned
FillSecond ==
    /\ fd_pc = "once"
    /\ fd_second' = FillDocument(fd_first.doc, fd_mapping, fd_row)
    /\ fd_pc' = "twice"
    /\ UNCHANGED << fd_doc, fd_mapping, fd_row, fd_first, fd_n, normVars, mapVars, batchVars, toolVars >>

NextFill == FillFirst \/ FillSecond

SpecFill == InitFill /\ [][NextFill]_vars

(***************************************************************************)
(* Filler.fill_document followed through its loops, one (INSERT, mapping   *)
(* entry) pair at a time; fd_first is the document and the list as the     *)
(* pairs so far left them.                                                 *)
(***************************************************************************)

InitFillLoop ==
    /\ fd_doc \in LoopDocPool
    /\ fd_mapping \in MappingPool
    /\ fd_row \in RowPool
    /\ fd_first = [ doc |-> fd_doc, changed |-> << >>, raised |-> FALSE ]
    /\ fd_second = NoFill
    /\ fd_pc = "loop"
    /\ fd_n = 0
    /\ NormIdle
    /\ MapIdle
    /\ BatchIdle
    /\ ToolIdle

\* the INSERT and the mapping entry of the n-th pair, the mapping being the
\* inner loop
PairInsert(n) == ((n - 1) \div Len(fd_mapping)) + 1
PairEntry(n) == fd_mapping[((n - 1) % Len(fd_mapping)) + 1]

\* lines 76-107: the body of the loops for the next pair; an exception of
\* pd.isna leaves the call
FillLoopBody ==
    /\ fd_pc = "loop"
    /\ fd_n < Len(fd_doc) * Len(fd_mapping)
    /\ fd_n' = fd_n + 1
    /\ fd_first' = FillEntry(fd_first, PairInsert(fd_n'), PairEntry(fd_n')[1],
                             PairEntry(fd_n')[2], fd_row)
    /\ fd_pc' = IF fd_first'.raised THEN "raised" ELSE "loop"
    /\ UNCHANGED << fd_doc, fd_mapping, fd_row, fd_second, normVars, mapVars, batchVars,
                    toolVars >>

\* line 109: return doc, changed_entities
FillLoopReturn ==
    /\ fd_pc = "loop"
    /\ fd_n = Len(fd_doc) * Len(fd_mapping)
    /\ fd_pc' = "once"
    /\ UNCHANGED << fd_doc, fd_mapping, fd_row, fd_first, fd_second, fd_n, normVars, mapVars,
                    batchVars, toolVars >>

NextFillLoop == FillLoopBody \/ FillLoopReturn

SpecFillLoop == InitFillLoop /\ [][NextFillLoop]_vars

\* either operation, on inputs that include the degenerate ones: no column, no
\* tag, no mapping entry, no INSERT, an INSERT without a field
InitDegenerate == InitTies \/ InitFill

NextDegenerate == NextMapper \/ NextFill

SpecDegenerate == InitDegenerate /\ [][NextDegenerate]_vars

(***************************************************************************)
(* IOManager.read_table and Filler.batch_fill                              *)
(***************************************************************************)

\* str(n) for n >= 0
RECURSIVE IntToStr(_)
IntToStr(n) ==
    IF n < 10 THEN << DigitChars[n + 1] >>
    ELSE IntToStr(n \div 10) \o << DigitChars[(n % 10) + 1] >>

\* a row of the file with every cell missing
FullyEmpty(row) == \A c \in 1..Len(row) : IsNa(row[c][2])

\* df.dropna(how='all', inplace=True) on the frame read from the file: the rows
\* left keep the index labels 0, 1, 2, ... they were read with
RECURSIVE DropNaFrom(_, _)
DropNaFrom(rows, n) ==
    IF n > Len(rows) THEN << >>
    ELSE ( IF FullyEmpty(rows[n]) THEN << >>
           ELSE << [ index |-> n - 1, row |-> rows[n] ] >> )
         \o DropNaFrom(rows, n + 1)

DropNa(rows) == DropNaFrom(rows, 1)

\* os.path.join(out_dir, f"{name}_{row_id}.dwg"), the directory left out
\* a slip the code could have made: the file is named after the project alone
FileNameWithoutOrdinal(name, row_id) ==
    name \o << ".", "d", "w", "g" >>

FileName(name, row_id) ==
    name \o << "_" >> \o IntToStr(row_id) \o << ".", "d", "w", "g" >>

\* str(row.get('PROJECT_NAME', 'Project')).replace(' ', '_')
ProjectName(row) ==
    Replace(IF DictHas(row, PROJECT_NAME) THEN Str(DictGet(row, PROJECT_NAME))
            ELSE << "P", "r", "o", "j", "e", "c", "t" >>,
            << " " >>, << "_" >>)

InitBatch ==
    /\ raw_table \in RawTablePool
    /\ dataframe = << >>
    /\ dwg_file = BatchTemplate
    /\ bf_mapping \in BatchMappingPool
    /\ out_dir_exists \in BOOLEAN
    /\ files = << >>
    /\ heap = << >>
    /\ report = NoReport
    /\ bf_pos = 0
    /\ bf = NoLocals
    /\ bf_pc = "read"
    /\ calls = << >>
    /\ NormIdle
    /\ MapIdle
    /\ FillIdle
    /\ ToolIdle

\* read_table, lines 70-78: the fully empty rows are dropped and the frame returned
ReadTable ==
    /\ bf_pc = "read"
    /\ DropNa(raw_table) # << >>
    /\ dataframe' = DropNa(raw_table)
    /\ bf_pc' = "call"
    /\ UNCHANGED << raw_table, dwg_file, bf_mapping, out_dir_exists, files, heap,
                    report, bf_pos, bf, calls, normVars, mapVars, fillVars, toolVars >>

\* read_table, lines 73-75 and 80-82: no row is left, the call raises
ReadTableEmpty ==
    /\ bf_pc = "read"
    /\ DropNa(raw_table) = << >>
    /\ bf_pc' = "read_failed"
    /\ UNCHANGED << raw_table, dataframe, dwg_file, bf_mapping, out_dir_exists, files,
                    heap, report, bf_pos, bf, calls, normVars, mapVars, fillVars, toolVars >>

\* batch_fill, lines 117-127: the empty report, ensure_directory(out_dir)
BatchBegin ==
    /\ bf_pc = "call"
    /\ report' = [ total_rows |-> Len(dataframe), success_count |-> 0,
                   failed_count |-> 0, results |-> << >> ]
    /\ out_dir_exists' = TRUE
    /\ bf_pos' = 0
    /\ bf_pc' = "iter"
    /\ UNCHANGED << raw_table, dataframe, dwg_file, bf_mapping, files, heap, bf,
                    calls, normVars, mapVars, fillVars, toolVars >>

\* line 127: os.makedirs fails (out_dir cannot be created); nothing catches it
BatchBeginFails ==
    /\ bf_pc = "call"
    /\ ~ out_dir_exists
    /\ report' = [ total_rows |-> Len(dataframe), success_count |-> 0,
                   failed_count |-> 0, results |-> << >> ]
    /\ bf_pos' = 0
    /\ bf_pc' = "raised"
    /\ UNCHANGED << raw_table, dataframe, dwg_file, bf_mapping, out_dir_exists, files,
                    heap, bf, calls, normVars, mapVars, fillVars, toolVars >>

\* a slip the code could have made: changed_entities is not reset for the row
BatchIterKeepsChanged ==
    /\ bf_pc = "iter"
    /\ bf_pos < Len(dataframe)
    /\ bf_pos' = bf_pos + 1
    /\ LET index == dataframe[bf_pos + 1].index
           row_id == index + 1
       IN  bf' = [ row |-> dataframe[bf_pos + 1].row,
                   row_id |-> row_id,
                   status |-> "SUCCESS",
                   error_message |-> "absent",
                   changed_entities |-> bf.changed_entities,
                   out_path |-> FileName(<< "o", "u", "t", "p", "u", "t" >>, row_id),
                   doc |-> 0,
                   exc |-> "absent" ]
    /\ bf_pc' = "load"
    /\ UNCHANGED << raw_table, dataframe, dwg_file, bf_mapping, out_dir_exists, files,
                    heap, report, calls, normVars, mapVars, fillVars, toolVars >>

\* lines 129-135: the next row of dataframe.iterrows() and the iteration's locals
BatchIter ==
    /\ bf_pc = "iter"
    /\ bf_pos < Len(dataframe)
    /\ bf_pos' = bf_pos + 1
    /\ LET index == dataframe[bf_pos + 1].index
           row_id == index + 1
       IN  bf' = [ row |-> dataframe[bf_pos + 1].row,
                   row_id |-> row_id,
                   status |-> "SUCCESS",
                   error_message |-> "absent",
                   changed_entities |-> << >>,
                   out_path |-> FileName(<< "o", "u", "t", "p", "u", "t" >>, row_id),
                   doc |-> 0,
                   exc |-> "absent" ]
    /\ bf_pc' = "load"
    /\ UNCHANGED << raw_table, dataframe, dwg_file, bf_mapping, out_dir_exists, files,
                    heap, report, calls, normVars, mapVars, fillVars, toolVars >>

\* a slip the code could have made: the document of the first row is kept and
\* handed to every later row
BatchLoadReusesDocument ==
    /\ bf_pc = "load"
    /\ heap' = IF heap = << >> THEN << dwg_file >> ELSE heap
    /\ bf' = [ bf EXCEPT !.doc = 1 ]
    /\ calls' = Append(calls, [ op |-> "load", pos |-> bf_pos, doc |-> 1,
                                ok |-> TRUE, before |-> heap'[1] ])
    /\ bf_pc' = "fill"
    /\ UNCHANGED << raw_table, dataframe, dwg_file, bf_mapping, out_dir_exists, files,
                    report, bf_pos, normVars, mapVars, fillVars, toolVars >>

\* line 140: load_dwg(dwg_path) parses the file into a new document
BatchLoad ==
    /\ bf_pc = "load"
    /\ heap' = Append(heap, dwg_file)
    /\ bf' = [ bf EXCEPT !.doc = Len(heap) + 1 ]
    /\ calls' = Append(calls, [ op |-> "load", pos |-> bf_pos, doc |-> Len(heap) + 1,
                                ok |-> TRUE, before |-> dwg_file ])
    /\ bf_pc' = "fill"
    /\ UNCHANGED << raw_table, dataframe, dwg_file, bf_mapping, out_dir_exists, files,
                    report, bf_pos, normVars, mapVars, fillVars, toolVars >>

\* line 140: load_dwg raises (file not found, not readable, structure error)
BatchLoadFails ==
    /\ bf_pc = "load"
    /\ bf' = [ bf EXCEPT !.exc = "load failed" ]
    /\ calls' = Append(calls, [ op |-> "load", pos |-> bf_pos, doc |-> 0,
                                ok |-> FALSE, before |-> << >> ])
    /\ bf_pc' = "except"
    /\ UNCHANGED << raw_table, dataframe, dwg_file, bf_mapping, out_dir_exists, files,
                    heap, report, bf_pos, normVars, mapVars, fillVars, toolVars >>

\* a slip the code could have made: the failure of fill_document is swallowed
\* and the document saved all the same
BatchFillSavesAfterFailure ==
    /\ bf_pc = "fill"
    /\ LET res == FillDocument(heap[bf.doc], bf_mapping, bf.row)
       IN  /\ heap' = [ heap EXCEPT ![bf.doc] = res.doc ]
           /\ calls' = Append(calls, [ op |-> "fill", pos |-> bf_pos, doc |-> bf.doc,
                                       ok |-> ~ res.raised, before |-> heap[bf.doc] ])
           /\ bf' = [ bf EXCEPT !.changed_entities = res.changed ]
           /\ bf_pc' = "save"
    /\ UNCHANGED << raw_table, dataframe, dwg_file, bf_mapping, out_dir_exists, files,
                    report, bf_pos, normVars, mapVars, fillVars, toolVars >>

\* line 143: fill_document(doc, mapping, row) mutates the document in place; when
\* it raises, changed_entities keeps its value []
BatchFill ==
    /\ bf_pc = "fill"
    /\ LET res == FillDocument(heap[bf.doc], bf_mapping, bf.row)
       IN  /\ heap' = [ heap EXCEPT ![bf.doc] = res.doc ]
           /\ calls' = Append(calls, [ op |-> "fill", pos |-> bf_pos, doc |-> bf.doc,
                                       ok |-> ~ res.raised, before |-> heap[bf.doc] ])
           /\ IF res.raised
              THEN /\ bf' = [ bf EXCEPT !.exc = "fill failed" ]
                   /\ bf_pc' = "except"
              ELSE /\ bf' = [ bf EXCEPT !.changed_entities = res.changed ]
                   /\ bf_pc' = "save"
    /\ UNCHANGED << raw_table, dataframe, dwg_file, bf_mapping, out_dir_exists, files,
                    report, bf_pos, normVars, mapVars, fillVars, toolVars >>

\* a slip the code could have made: the row is counted before it is saved
BatchSaveFailsCounted ==
    /\ bf_pc = "save"
    /\ bf' = [ bf EXCEPT !.out_path = FileName(ProjectName(bf.row), bf.row_id),
                         !.exc = "save failed" ]
    /\ report' = [ report EXCEPT !.success_count = @ + 1 ]
    /\ calls' = Append(calls, [ op |-> "save", pos |-> bf_pos, doc |-> bf.doc,
                                ok |-> FALSE, before |-> heap[bf.doc] ])
    /\ bf_pc' = "except"
    /\ UNCHANGED << raw_table, dataframe, dwg_file, bf_mapping, out_dir_exists, files,
                    heap, bf_pos, normVars, mapVars, fillVars, toolVars >>

\* lines 148-152: the output path, save_dwg, success_count += 1
BatchSave ==
    /\ bf_pc = "save"
    /\ LET out_path == FileName(ProjectName(bf.row), bf.row_id)
       IN  /\ bf' = [ bf EXCEPT !.out_path = out_path ]
           /\ files' = DictSet(files, out_path, heap[bf.doc])
    /\ report' = [ report EXCEPT !.success_count = @ + 1 ]
    /\ calls' = Append(calls, [ op |-> "save", pos |-> bf_pos, doc |-> bf.doc,
                                ok |-> TRUE, before |-> heap[bf.doc] ])
    /\ bf_pc' = "append"
    /\ UNCHANGED << raw_table, dataframe, dwg_file, bf_mapping, out_dir_exists, heap,
                    bf_pos, normVars, mapVars, fillVars, toolVars >>

\* lines 148-151: save_dwg raises; success_count is not reached
BatchSaveFails ==
    /\ bf_pc = "save"
    /\ bf' = [ bf EXCEPT !.out_path = FileName(ProjectName(bf.row), bf.row_id),
                         !.exc = "save failed" ]
    /\ calls' = Append(calls, [ op |-> "save", pos |-> bf_pos, doc |-> bf.doc,
                                ok |-> FALSE, before |-> heap[bf.doc] ])
    /\ bf_pc' = "except"
    /\ UNCHANGED << raw_table, dataframe, dwg_file, bf_mapping, out_dir_exists, files,
                    heap, report, bf_pos, normVars, mapVars, fillVars, toolVars >>

\* a slip the code could have made: `except IOError`, which lets the ValueError
\* of fill_document leave batch_fill
BatchExceptIOErrorOnly ==
    /\ bf_pc = "except"
    /\ IF bf.exc = "fill failed"
       THEN /\ bf_pc' = "raised"
            /\ UNCHANGED << report, bf >>
       ELSE /\ report' = [ report EXCEPT !.failed_count = @ + 1 ]
            /\ bf' = [ bf EXCEPT !.status = "FAILED", !.error_message = bf.exc,
                                 !.out_path = << >> ]
            /\ bf_pc' = "append"
    /\ UNCHANGED << raw_table, dataframe, dwg_file, bf_mapping, out_dir_exists, files,
                    heap, bf_pos, calls, normVars, mapVars, fillVars, toolVars >>

\* a slip the code could have made: the path computed before the failure is
\* left in the row-result
BatchExceptKeepsPath ==
    /\ bf_pc = "except"
    /\ report' = [ report EXCEPT !.failed_count = @ + 1 ]
    /\ bf' = [ bf EXCEPT !.status = "FAILED", !.error_message = bf.exc ]
    /\ bf_pc' = "append"
    /\ UNCHANGED << raw_table, dataframe, dwg_file, bf_mapping, out_dir_exists, files,
                    heap, bf_pos, calls, normVars, mapVars, fillVars, toolVars >>

\* lines 154-159: except Exception; out_path = None is the empty path
BatchExcept ==
    /\ bf_pc = "except"
    /\ report' = [ report EXCEPT !.failed_count = @ + 1 ]
    /\ bf' = [ bf EXCEPT !.status = "FAILED", !.error_message = bf.exc,
                         !.out_path = << >> ]
    /\ bf_pc' = "append"
    /\ UNCHANGED << raw_table, dataframe, dwg_file, bf_mapping, out_dir_exists, files,
                    heap, bf_pos, calls, normVars, mapVars, fillVars, toolVars >>

\* lines 161-167: report['results'].append(...)
BatchAppend ==
    /\ bf_pc = "append"
    /\ report' = [ report EXCEPT !.results =
                      Append(@, [ row_index |-> bf.row_id,
                                  status |-> bf.status,
                                  output_path |-> bf.out_path,
                                  error |-> bf.error_message,
                                  changed_count |-> Len(bf.changed_entities) ]) ]
    /\ bf_pc' = "iter"
    /\ UNCHANGED << raw_table, dataframe, dwg_file, bf_mapping, out_dir_exists, files,
                    heap, bf_pos, bf, calls, normVars, mapVars, fillVars, toolVars >>

\* lines 169-170: the rows are exhausted, return report
BatchReturn ==
    /\ bf_pc = "iter"
    /\ bf_pos = Len(dataframe)
    /\ bf_pc' = "done"
    /\ UNCHANGED << raw_table, dataframe, dwg_file, bf_mapping, out_dir_exists, files,
                    heap, report, bf_pos, bf, calls, normVars, mapVars, fillVars, toolVars >>

NextBatch ==
    \/ ReadTable
    \/ ReadTableEmpty
    \/ BatchBegin
    \/ BatchBeginFails
    \/ BatchIter
    \/ BatchLoad
    \/ BatchLoadFails
    \/ BatchFill
    \/ BatchSave
    \/ BatchSaveFails
    \/ BatchExcept
    \/ BatchAppend
    \/ BatchReturn

SpecBatch == InitBatch /\ [][NextBatch]_vars

(***************************************************************************)
(* DWGAutoFillGUI._preview_document                                        *)
(***************************************************************************)

\* The GUI with a template loaded or not, a data file loaded or not, a mapping
\* set or not, and the changed_entities an earlier preview left (of another
\* data file, or none).
InitPreview ==
    /\ current_doc \in { << >>, BatchTemplate }
    /\ current_data_df \in { DropNa(t) : t \in RawTablePool }
    /\ current_mapping \in { << >> } \cup BatchMappingPool
    /\ changed_entities \in
          { FillDocument(BatchTemplate, m, r).changed :
               m \in BatchMappingPool, r \in DictsOver(<< Address >>, { StrVal(<< "b" >>) }) }
          \cup { << >> }
    /\ pv_temp = << >>
    /\ pv_exc = "absent"
    /\ pv_popup = "absent"
    /\ pv_before = NoSnapshot
    /\ pv_count = 0
    /\ pv_pc = "idle"
    /\ dwg_file = BatchTemplate
    /\ raw_table = << >>
    /\ dataframe = << >>
    /\ bf_mapping = << >>
    /\ out_dir_exists = FALSE
    /\ files = << >>
    /\ heap = << >>
    /\ report = NoReport
    /\ bf_pos = 0
    /\ bf = NoLocals
    /\ bf_pc = "idle"
    /\ calls = << >>
    /\ NormIdle
    /\ MapIdle
    /\ FillIdle
    /\ BboxIdle
    /\ ExportIdle
    /\ PersistIdle

PreviewFrame ==
    UNCHANGED << normVars, mapVars, fillVars, batchVars, bboxVars, exportVars,
                 persistVars >>

Snapshot ==
    [ current_doc |-> current_doc, current_mapping |-> current_mapping,
      changed_entities |-> changed_entities ]

\* lines 121-124: something is not loaded, a quick message and return
PreviewRefused ==
    /\ pv_pc = "idle"
    /\ pv_count < MaxPreviews
    /\ current_doc = << >> \/ current_data_df = << >> \/ current_mapping = << >>
    /\ pv_count' = pv_count + 1
    /\ pv_before' = Snapshot
    /\ pv_popup' = "quick message"
    /\ pv_exc' = "absent"
    /\ UNCHANGED << current_doc, current_data_df, current_mapping, changed_entities,
                    pv_temp, pv_pc >>
    /\ PreviewFrame

\* lines 126-131: the guard passes, load_dwg of the template path returns
PreviewLoad ==
    /\ pv_pc = "idle"
    /\ pv_count < MaxPreviews
    /\ ~ ( current_doc = << >> \/ current_data_df = << >> \/ current_mapping = << >> )
    /\ pv_count' = pv_count + 1
    /\ pv_before' = Snapshot
    /\ pv_popup' = "absent"
    /\ pv_exc' = "absent"
    /\ pv_temp' = dwg_file
    /\ pv_pc' = "fill"
    /\ UNCHANGED << current_doc, current_data_df, current_mapping, changed_entities >>
    /\ PreviewFrame

\* lines 126-131: the guard passes, load_dwg raises
PreviewLoadFails ==
    /\ pv_pc = "idle"
    /\ pv_count < MaxPreviews
    /\ ~ ( current_doc = << >> \/ current_data_df = << >> \/ current_mapping = << >> )
    /\ pv_count' = pv_count + 1
    /\ pv_before' = Snapshot
    /\ pv_popup' = "absent"
    /\ pv_exc' = "load failed"
    /\ pv_pc' = "except"
    /\ UNCHANGED << current_doc, current_data_df, current_mapping, changed_entities,
                    pv_temp >>
    /\ PreviewFrame

\* a slip the code could have made: the list of the last preview is emptied
\* before fill_document is called
PreviewFillClearsFirst ==
    /\ pv_pc = "fill"
    /\ LET first_row == current_data_df[1].row
           res == FillDocument(pv_temp, current_mapping, first_row)
       IN  /\ pv_temp' = res.doc
           /\ IF res.raised
              THEN /\ pv_exc' = "fill failed"
                   /\ pv_pc' = "except"
                   /\ changed_entities' = << >>
              ELSE /\ changed_entities' = res.changed
                   /\ pv_pc' = "render"
                   /\ UNCHANGED pv_exc
    /\ UNCHANGED << current_doc, current_data_df, current_mapping, pv_popup, pv_before,
                    pv_count >>
    /\ PreviewFrame

\* lines 128 and 134: the first row, fill_document on temp_doc; the result is
\* assigned to self.changed_entities only when the call returns
PreviewFill ==
    /\ pv_pc = "fill"
    /\ LET first_row == current_data_df[1].row
           res == FillDocument(pv_temp, current_mapping, first_row)
       IN  /\ pv_temp' = res.doc
           /\ IF res.raised
              THEN /\ pv_exc' = "fill failed"
                   /\ pv_pc' = "except"
                   /\ UNCHANGED changed_entities
              ELSE /\ changed_entities' = res.changed
                   /\ pv_pc' = "render"
                   /\ UNCHANGED pv_exc
    /\ UNCHANGED << current_doc, current_data_df, current_mapping, pv_popup, pv_before,
                    pv_count >>
    /\ PreviewFrame

\* lines 136-144: the filled document is rendered and the boxes overlaid
PreviewRender ==
    /\ pv_pc = "render"
    /\ pv_pc' = "idle"
    /\ pv_temp' = << >>
    /\ UNCHANGED << current_doc, current_data_df, current_mapping, changed_entities,
                    pv_exc, pv_popup, pv_before, pv_count >>
    /\ PreviewFrame

\* lines 136-144: rendering or the overlay raises
PreviewRenderFails ==
    /\ pv_pc = "render"
    /\ pv_exc' = "render failed"
    /\ pv_pc' = "except"
    /\ UNCHANGED << current_doc, current_data_df, current_mapping, changed_entities,
                    pv_temp, pv_popup, pv_before, pv_count >>
    /\ PreviewFrame

\* lines 146-148: except Exception, the error is logged and shown
PreviewExcept ==
    /\ pv_pc = "except"
    /\ pv_popup' = pv_exc
    /\ pv_temp' = << >>
    /\ pv_pc' = "idle"
    /\ UNCHANGED << current_doc, current_data_df, current_mapping, changed_entities,
                    pv_exc, pv_before, pv_count >>
    /\ PreviewFrame

NextPreview ==
    \/ PreviewRefused
    \/ PreviewLoad
    \/ PreviewLoadFails
    \/ PreviewFill
    \/ PreviewRender
    \/ PreviewRenderFails
    \/ PreviewExcept

SpecPreview == InitPreview /\ [][NextPreview]_vars

(***************************************************************************)
(* A session of DWGAutoFillGUI: _load_dwg_template, _load_data_file,       *)
(* _show_manual_mapping_window and _generate_documents, one handler at a   *)
(* time as the event loop of run() calls them. _preview_document, which    *)
(* assigns none of current_doc, current_data_df and current_mapping, is    *)
(* followed on its own above.                                              *)
(***************************************************************************)

\* auto_map(df_columns, dxf_attributes) of the Mapper the GUI constructs
\* (threshold 70), from column i on
RECURSIVE AutoMapFrom(_, _, _, _)
AutoMapFrom(cols, nattrs, m, i) ==
    IF i > Len(cols) THEN m
    ELSE LET col == cols[i]
             normalized_col == Normalize(col)
             bound ==
                IF DictHas(nattrs, normalized_col)
                THEN DictSet(m, col, DictGet(nattrs, normalized_col))
                ELSE IF DictKeys(nattrs) # << >>
                     THEN LET one == ExtractOne(normalized_col, DictKeys(nattrs))
                          IN  IF ScoreGE(one[2], DefaultThreshold)
                              THEN DictSet(m, col, DictGet(nattrs, one[1]))
                              ELSE m
                     ELSE m
         IN  Strict(LAMBDA nxt : AutoMapFrom(cols, nattrs, nxt, i + 1), bound)

AutoMap(cols, attrs) == AutoMapFrom(cols, NormalizedAttrs(attrs), << >>, 1)

\* list(get_dxf_attributes(doc).keys()): the tags the blocks of the document
\* define, each once, in the order they are met; every INSERT of a template
\* carries the fields its block defines
RECURSIVE TagsFrom(_, _, _)
TagsFrom(attribs, i, tags) ==
    IF i > Len(attribs) THEN tags
    ELSE TagsFrom(attribs, i + 1,
                  IF \E t \in 1..Len(tags) : tags[t] = attribs[i].tag THEN tags
                  ELSE Append(tags, attribs[i].tag))

RECURSIVE DxfAttributesFrom(_, _, _)
DxfAttributesFrom(doc, i, tags) ==
    IF i > Len(doc) THEN tags
    ELSE DxfAttributesFrom(doc, i + 1, TagsFrom(doc[i].attribs, 1, tags))

GetDxfAttributes(doc) == DxfAttributesFrom(doc, 1, << >>)

\* current_data_df.columns.tolist()
ColumnsOf(df) == DictKeys(df[1].row)

\* the templates and the data files of the session: two templates with
\* different tags, two tables with different columns
StampTemplate ==
    << [ name |-> "STAMP",
         attribs |-> << Attrib(PROJECTNAME, << "a" >>), Attrib(ADDRESS, << "b", " " >>) >> ] >>
SessionTemplates == { BatchTemplate, StampTemplate }
SessionTables ==
    { << [ index |-> 0,
           row |-> << << Address, StrVal(<< "b" >>) >>, << Description, StrVal(<< "a" >>) >> >> ] >>,
      << [ index |-> 0,
           row |-> << << Project_Name, StrVal(<< "a" >>) >>, << Address, ListVal >> >> ] >> }

\* __init__, lines 38-41: nothing loaded, no mapping
InitSession ==
    /\ GuiIdle
    /\ NormIdle
    /\ MapIdle
    /\ FillIdle
    /\ BatchIdle
    /\ BboxIdle
    /\ ExportIdle
    /\ PersistIdle

\* what the handlers leave alone
SessionFrame ==
    UNCHANGED << normVars, mapVars, fillVars, bboxVars, exportVars, persistVars,
                 raw_table, out_dir_exists, files, heap, report, bf_pos, bf, bf_pc, calls,
                 pv_temp, pv_exc, pv_before, pv_count, pv_pc >>

\* a slip the code could have made: the mapping is not computed again for the
\* new template
LoadTemplateKeepsMapping ==
    /\ pv_pc = "idle"
    /\ \E doc \in SessionTemplates :
          /\ current_doc' = doc
          /\ dwg_file' = doc
    /\ pv_popup' = "absent"
    /\ UNCHANGED << current_mapping, current_data_df, changed_entities, dataframe, bf_mapping >>
    /\ SessionFrame

\* _load_dwg_template, lines 74-92: load_dwg returns, auto_map when a table is
\* loaded, the template is drawn
LoadTemplate ==
    /\ pv_pc = "idle"
    /\ \E doc \in SessionTemplates :
          /\ current_doc' = doc
          /\ dwg_file' = doc
          /\ current_mapping' =
                IF current_data_df # << >>
                THEN AutoMap(ColumnsOf(current_data_df), GetDxfAttributes(doc))
                ELSE current_mapping
    /\ pv_popup' = "absent"
    /\ UNCHANGED << current_data_df, changed_entities, dataframe, bf_mapping >>
    /\ SessionFrame

\* lines 75 and 94-97: load_dwg raises
LoadTemplateFails ==
    /\ pv_pc = "idle"
    /\ current_doc' = << >>
    /\ dwg_file' = << >>
    /\ pv_popup' = "error"
    /\ UNCHANGED << current_mapping, current_data_df, changed_entities, dataframe,
                    bf_mapping >>
    /\ SessionFrame

\* lines 92 and 94-97: the template is loaded and mapped, render_to_canvas raises
LoadTemplateRenderFails ==
    /\ pv_pc = "idle"
    /\ \E doc \in SessionTemplates :
          /\ dwg_file' = doc
          /\ current_mapping' =
                IF current_data_df # << >>
                THEN AutoMap(ColumnsOf(current_data_df), GetDxfAttributes(doc))
                ELSE current_mapping
    /\ current_doc' = << >>
    /\ pv_popup' = "error"
    /\ UNCHANGED << current_data_df, changed_entities, dataframe, bf_mapping >>
    /\ SessionFrame

\* _load_data_file, lines 101-112: read_table returns, auto_map when a template
\* is loaded
LoadData ==
    /\ pv_pc = "idle"
    /\ \E df \in SessionTables :
          /\ current_data_df' = df
          /\ current_mapping' =
                IF current_doc # << >>
                THEN AutoMap(ColumnsOf(df), GetDxfAttributes(current_doc))
                ELSE current_mapping
    /\ pv_popup' = "absent"
    /\ UNCHANGED << current_doc, changed_entities, dwg_file, dataframe, bf_mapping >>
    /\ SessionFrame

\* lines 102 and 114-117: read_table raises
LoadDataFails ==
    /\ pv_pc = "idle"
    /\ current_data_df' = << >>
    /\ pv_popup' = "error"
    /\ UNCHANGED << current_doc, current_mapping, changed_entities, dwg_file, dataframe,
                    bf_mapping >>
    /\ SessionFrame

\* _show_manual_mapping_window, lines 196-199: a template or a table is missing
ManualMapRefused ==
    /\ pv_pc = "idle"
    /\ current_data_df = << >> \/ current_doc = << >>
    /\ pv_popup' = "quick message"
    /\ UNCHANGED << current_doc, current_data_df, current_mapping, changed_entities,
                    dwg_file, dataframe, bf_mapping >>
    /\ SessionFrame

\* lines 201-274: each column of the table starts with the tag the mapping
\* gives it, the user leaves it, clears it or picks a tag of the template, and
\* saves: the columns with a tag make the new mapping
ManualMapSave ==
    /\ pv_pc = "idle"
    /\ current_data_df # << >>
    /\ current_doc # << >>
    /\ LET columns == ColumnsOf(current_data_df)
           attributes == GetDxfAttributes(current_doc)
           options == { << >> } \cup Range(attributes)
           shown(c) == IF DictHas(current_mapping, columns[c])
                       THEN DictGet(current_mapping, columns[c])
                       ELSE << >>
       IN  \E attr \in [ 1..Len(columns) -> options \cup { shown(c) : c \in 1..Len(columns) } ] :
              /\ \A c \in 1..Len(columns) : attr[c] \in options \/ attr[c] = shown(c)
              /\ LET mapped == SelectSeq([ c \in 1..Len(columns) |-> c ],
                                         LAMBDA c : attr[c] # << >>)
                 IN  current_mapping' =
                        [ n \in 1..Len(mapped) |-> << columns[mapped[n]], attr[mapped[n]] >> ]
    /\ pv_popup' = "absent"
    /\ UNCHANGED << current_doc, current_data_df, changed_entities, dwg_file, dataframe,
                    bf_mapping >>
    /\ SessionFrame

\* _generate_documents, lines 152-155: something is not loaded
GenerateRefused ==
    /\ pv_pc = "idle"
    /\ current_doc = << >> \/ current_data_df = << >> \/ current_mapping = << >>
    /\ pv_popup' = "quick message"
    /\ UNCHANGED << current_doc, current_data_df, current_mapping, changed_entities,
                    dwg_file, dataframe, bf_mapping >>
    /\ SessionFrame

\* line 164: the table and the mapping are handed to batch_fill, which leaves
\* the state of the GUI as it is
Generate ==
    /\ pv_pc = "idle"
    /\ ~ ( current_doc = << >> \/ current_data_df = << >> \/ current_mapping = << >> )
    /\ dataframe' = current_data_df
    /\ bf_mapping' = current_mapping
    /\ pv_popup' = "ok"
    /\ UNCHANGED << current_doc, current_data_df, current_mapping, changed_entities,
                    dwg_file >>
    /\ SessionFrame

NextSession ==
    \/ LoadTemplate
    \/ LoadTemplateFails
    \/ LoadTemplateRenderFails
    \/ LoadData
    \/ LoadDataFails
    \/ ManualMapRefused
    \/ ManualMapSave
    \/ GenerateRefused
    \/ Generate

SpecSession == InitSession /\ [][NextSession]_vars

(***************************************************************************)
(* Exporter.export_pdf and AutoCADBridge.export_pdf                        *)
(***************************************************************************)

\* is_available is what _check_availability returned when the bridge was made,
\* acad_app the application it dispatched (lines 23-37)
InitExport ==
    /\ is_available \in BOOLEAN
    /\ acad_app = IF is_available THEN "handle" ELSE "none"
    /\ open_docs = 0
    /\ ex_entry = "none"
    /\ ex_doc = "none"
    /\ ex_ret = "none"
    /\ ex_events = { }
    /\ ex_log = << >>
    /\ ex_pc = "idle"
    /\ NormIdle
    /\ MapIdle
    /\ FillIdle
    /\ BatchIdle
    /\ BboxIdle
    /\ GuiIdle
    /\ PersistIdle

ExportFrame ==
    UNCHANGED << is_available, acad_app, normVars, mapVars, fillVars, batchVars, bboxVars, guiVars,
                 persistVars >>

\* the call is over with this outcome: True, False or raised
Finished(outcome, doc, events) ==
    /\ ex_log' = Append(ex_log, [ entry |-> ex_entry', available |-> is_available,
                                  outcome |-> outcome, events |-> events ])
    /\ ex_doc' = doc
    /\ ex_ret' = "none"
    /\ ex_events' = events
    /\ ex_pc' = "idle"

\* Exporter.export_pdf, lines 24-26: the bridge is available, its export_pdf is
\* called
ExporterDelegates ==
    /\ ex_pc = "idle"
    /\ Len(ex_log) < MaxExports
    /\ is_available
    /\ ex_entry' = "Exporter"
    /\ ex_doc' = "none"
    /\ ex_ret' = "none"
    /\ ex_events' = { }
    /\ ex_pc' = "bridge"
    /\ UNCHANGED ex_log
    /\ UNCHANGED open_docs
    /\ ExportFrame

\* Exporter.export_pdf, lines 27-31: not available, a message and False
ExporterUnavailable ==
    /\ ex_pc = "idle"
    /\ Len(ex_log) < MaxExports
    /\ ~ is_available
    /\ ex_entry' = "Exporter"
    /\ Finished("False", "none", { "reported" })
    /\ UNCHANGED open_docs
    /\ ExportFrame

\* AutoCADBridge.export_pdf called by another caller than the Exporter
BridgeCalled ==
    /\ ex_pc = "idle"
    /\ Len(ex_log) < MaxExports
    /\ ex_entry' = "AutoCADBridge"
    /\ ex_doc' = "none"
    /\ ex_ret' = "none"
    /\ ex_events' = { }
    /\ ex_pc' = "bridge"
    /\ UNCHANGED ex_log
    /\ UNCHANGED open_docs
    /\ ExportFrame

\* AutoCADBridge.export_pdf, lines 58-59
BridgeUnavailable ==
    /\ ex_pc = "bridge"
    /\ ~ is_available
    /\ UNCHANGED ex_entry
    /\ Finished("False", "none", ex_events)
    /\ UNCHANGED open_docs
    /\ ExportFrame

\* lines 61-63: open_document returns the document
BridgeOpen ==
    /\ ex_pc = "bridge"
    /\ is_available
    /\ acad_app = "handle"
    /\ open_docs' = open_docs + 1
    /\ ex_doc' = "open"
    /\ ex_events' = ex_events \cup { "opened" }
    /\ ex_pc' = "plot"
    /\ UNCHANGED << ex_entry, ex_ret, ex_log >>
    /\ ExportFrame

\* lines 63-65 and 77-78: open_document caught a failure of Documents.Open and
\* returned None; export_pdf returns False, the finally has nothing to close
BridgeOpenFails ==
    /\ ex_pc = "bridge"
    /\ is_available
    /\ acad_app = "handle"
    /\ UNCHANGED ex_entry
    /\ Finished("False", "none", ex_events \cup { "open failed", "reported" })
    /\ UNCHANGED open_docs
    /\ ExportFrame

\* lines 69-73: the layout is plotted to the file, return True is pending
BridgePlot ==
    /\ ex_pc = "plot"
    /\ ex_ret' = "True"
    /\ ex_events' = ex_events \cup { "plotted" }
    /\ ex_pc' = "finally"
    /\ UNCHANGED << ex_entry, ex_doc, ex_log >>
    /\ UNCHANGED open_docs
    /\ ExportFrame

\* lines 69-76: ActiveLayout or PlotToFile raises, the except prints and
\* return False is pending
BridgePlotFails ==
    /\ ex_pc = "plot"
    /\ ex_ret' = "False"
    /\ ex_events' = ex_events \cup { "plot failed", "reported" }
    /\ ex_pc' = "finally"
    /\ UNCHANGED << ex_entry, ex_doc, ex_log >>
    /\ UNCHANGED open_docs
    /\ ExportFrame

\* lines 77-79: doc.Close(False) returns, the pending value is returned
BridgeClose ==
    /\ ex_pc = "finally"
    /\ UNCHANGED ex_entry
    /\ open_docs' = open_docs - 1
    /\ Finished(ex_ret, "closed", ex_events)
    /\ ExportFrame

\* lines 77-79: doc.Close(False) raises in the finally block: the exception
\* replaces the pending return and leaves export_pdf
BridgeCloseFails ==
    /\ ex_pc = "finally"
    /\ UNCHANGED ex_entry
    /\ Finished("raised", "open", ex_events \cup { "close failed" })
    /\ UNCHANGED open_docs
    /\ ExportFrame

NextExport ==
    \/ ExporterDelegates
    \/ ExporterUnavailable
    \/ BridgeCalled
    \/ BridgeUnavailable
    \/ BridgeOpen
    \/ BridgeOpenFails
    \/ BridgePlot
    \/ BridgePlotFails
    \/ BridgeClose
    \/ BridgeCloseFails

SpecExport == InitExport /\ [][NextExport]_vars

(***************************************************************************)
(* AutoCADBridge: export_pdf, render_preview and close_app in any order    *)
(***************************************************************************)

\* export_pdf, lines 61-63, after close_app: open_document finds no
\* application (line 43) and returns None, export_pdf returns False
BridgeNoApp ==
    /\ ex_pc = "bridge"
    /\ is_available
    /\ acad_app = "none"
    /\ UNCHANGED << ex_entry, open_docs >>
    /\ Finished("False", "none", ex_events \cup { "no application" })
    /\ ExportFrame

\* render_preview is called
RenderCalled ==
    /\ ex_pc = "idle"
    /\ Len(ex_log) < MaxExports
    /\ ex_entry' = "render_preview"
    /\ ex_doc' = "none"
    /\ ex_ret' = "none"
    /\ ex_events' = { }
    /\ ex_pc' = "render"
    /\ UNCHANGED << ex_log, open_docs >>
    /\ ExportFrame

\* lines 85-86
RenderUnavailable ==
    /\ ex_pc = "render"
    /\ ~ is_available
    /\ UNCHANGED << ex_entry, open_docs >>
    /\ Finished("None", "none", ex_events)
    /\ ExportFrame

\* lines 92-94 after close_app: open_document returns None
RenderNoApp ==
    /\ ex_pc = "render"
    /\ is_available
    /\ acad_app = "none"
    /\ UNCHANGED << ex_entry, open_docs >>
    /\ Finished("None", "none", ex_events \cup { "no application" })
    /\ ExportFrame

\* lines 92-94: open_document returns the document
RenderOpen ==
    /\ ex_pc = "render"
    /\ is_available
    /\ acad_app = "handle"
    /\ open_docs' = open_docs + 1
    /\ ex_doc' = "open"
    /\ ex_events' = ex_events \cup { "opened" }
    /\ ex_pc' = "image"
    /\ UNCHANGED << ex_entry, ex_ret, ex_log >>
    /\ ExportFrame

\* lines 92-94: Documents.Open failed in open_document (lines 46-52), None is
\* returned
RenderOpenFails ==
    /\ ex_pc = "render"
    /\ is_available
    /\ acad_app = "handle"
    /\ UNCHANGED << ex_entry, open_docs >>
    /\ Finished("None", "none", ex_events \cup { "open failed", "reported" })
    /\ ExportFrame

\* lines 98-106: the document is exported to the temporary file and the image
\* read, return img_copy is pending
RenderImage ==
    /\ ex_pc = "image"
    /\ ex_ret' = "Image"
    /\ ex_events' = ex_events \cup { "rendered" }
    /\ ex_pc' = "render finally"
    /\ UNCHANGED << ex_entry, ex_doc, ex_log, open_docs >>
    /\ ExportFrame

\* lines 98-110: Export, Image.open or os.remove raises, return None is pending
RenderImageFails ==
    /\ ex_pc = "image"
    /\ ex_ret' = "None"
    /\ ex_events' = ex_events \cup { "render failed", "reported" }
    /\ ex_pc' = "render finally"
    /\ UNCHANGED << ex_entry, ex_doc, ex_log, open_docs >>
    /\ ExportFrame

\* lines 111-113: doc.Close(False) returns, the pending value is returned
RenderClose ==
    /\ ex_pc = "render finally"
    /\ open_docs' = open_docs - 1
    /\ UNCHANGED ex_entry
    /\ Finished(ex_ret, "closed", ex_events)
    /\ ExportFrame

\* lines 111-113: doc.Close(False) raises in the finally block, the document
\* stays open and the exception leaves render_preview
RenderCloseFails ==
    /\ ex_pc = "render finally"
    /\ UNCHANGED << ex_entry, open_docs >>
    /\ Finished("raised", "open", ex_events \cup { "close failed" })
    /\ ExportFrame

CloseAppFrame ==
    UNCHANGED << is_available, ex_entry, ex_doc, ex_ret, ex_events, ex_pc,
                 normVars, mapVars, fillVars, batchVars, bboxVars, guiVars, persistVars >>

\* close_app returns None; the call is entered in the log of calls
Closed(events) ==
    /\ Len(ex_log) < MaxExports
    /\ ex_log' = Append(ex_log, [ entry |-> "close_app", available |-> is_available,
                                  outcome |-> "None", events |-> events ])

\* close_app, lines 119-124: Quit returns and AutoCAD is gone with the documents
\* it had open
CloseApp ==
    /\ ex_pc = "idle"
    /\ acad_app = "handle"
    /\ acad_app' = "none"
    /\ open_docs' = 0
    /\ Closed({ "quit" })
    /\ CloseAppFrame

\* lines 121-124: Quit raises, the exception is dropped and the handle let go
CloseAppQuitFails ==
    /\ ex_pc = "idle"
    /\ acad_app = "handle"
    /\ acad_app' = "none"
    /\ UNCHANGED open_docs
    /\ Closed({ "quit failed" })
    /\ CloseAppFrame

\* line 119: there is no application, nothing is done
CloseAppNoHandle ==
    /\ ex_pc = "idle"
    /\ acad_app = "none"
    /\ UNCHANGED << acad_app, open_docs >>
    /\ Closed({ })
    /\ CloseAppFrame

NextBridge ==
    \/ BridgeCalled
    \/ BridgeUnavailable
    \/ BridgeNoApp
    \/ BridgeOpen
    \/ BridgeOpenFails
    \/ BridgePlot
    \/ BridgePlotFails
    \/ BridgeClose
    \/ BridgeCloseFails
    \/ RenderCalled
    \/ RenderUnavailable
    \/ RenderNoApp
    \/ RenderOpen
    \/ RenderOpenFails
    \/ RenderImage
    \/ RenderImageFails
    \/ RenderClose
    \/ RenderCloseFails
    \/ CloseApp
    \/ CloseAppQuitFails
    \/ CloseAppNoHandle

SpecBridge == InitExport /\ [][NextBridge]_vars

(***************************************************************************)
(* Mapper.save_map and Mapper.load_map: json.dump(mapping, f, indent=4,    *)
(* ensure_ascii=False) and json.load(f), for a dict from str to str.       *)
(***************************************************************************)

\* a slip the code could have made: the backslash is written as it is
JsonEscapeCharRawBackslash(c) ==
    CASE c = "\"" -> << "\\", "\"" >>
      [] c = "\n" -> << "\\", "n" >>
      [] c = "\t" -> << "\\", "t" >>
      [] OTHER -> << c >>

\* the encoder's escape of one character; a non-ASCII character is written as
\* it is (ensure_ascii=False)
JsonEscapeChar(c) ==
    CASE c = "\"" -> << "\\", "\"" >>
      [] c = "\\" -> << "\\", "\\" >>
      [] c = "\n" -> << "\\", "n" >>
      [] c = "\t" -> << "\\", "t" >>
      [] OTHER -> << c >>

RECURSIVE JsonEscapeFrom(_, _)
JsonEscapeFrom(t, i) ==
    IF i > Len(t) THEN << >> ELSE JsonEscapeChar(t[i]) \o JsonEscapeFrom(t, i + 1)

\* a str as a JSON string
JsonString(t) == << "\"" >> \o JsonEscapeFrom(t, 1) \o << "\"" >>

\* the members of the object from the i-th on, one per line, indented by 4
RECURSIVE JsonMembers(_, _)
JsonMembers(m, i) ==
    IF i > Len(m) THEN << >>
    ELSE << " ", " ", " ", " " >> \o JsonString(m[i][1]) \o << ":", " " >>
         \o JsonString(m[i][2])
         \o ( IF i < Len(m) THEN << ",", "\n" >> ELSE << >> )
         \o JsonMembers(m, i + 1)

\* json.dump(mapping, f, indent=4, ensure_ascii=False): the text written
JsonDump(m) ==
    IF m = << >> THEN << "{", "}" >>
    ELSE << "{", "\n" >> \o JsonMembers(m, 1) \o << "\n", "}" >>

ParseError(i) == [ ok |-> FALSE, val |-> << >>, next |-> i ]

\* the decoder after the opening quote of a string: up to the closing quote,
\* escapes decoded; a raw control character is an error
RECURSIVE ScanString(_, _, _)
ScanString(text, i, acc) ==
    IF i > Len(text) THEN ParseError(i)
    ELSE IF text[i] = "\"" THEN [ ok |-> TRUE, val |-> acc, next |-> i + 1 ]
    ELSE IF text[i] \in { "\n", "\t" } THEN ParseError(i)
    ELSE IF text[i] = "\\"
         THEN IF i + 1 > Len(text) THEN ParseError(i)
              ELSE IF text[i + 1] \in { "\"", "\\", "/" }
                   THEN Strict(LAMBDA p : ScanString(text, p[1], p[2]),
                               << i + 2, Append(acc, text[i + 1]) >>)
              ELSE IF text[i + 1] = "n"
                   THEN Strict(LAMBDA p : ScanString(text, p[1], p[2]),
                               << i + 2, Append(acc, "\n") >>)
              ELSE IF text[i + 1] = "t"
                   THEN Strict(LAMBDA p : ScanString(text, p[1], p[2]),
                               << i + 2, Append(acc, "\t") >>)
              ELSE ParseError(i)
    ELSE Strict(LAMBDA p : ScanString(text, p[1], p[2]), << i + 1, Append(acc, text[i]) >>)

ParseString(text, i) ==
    IF i <= Len(text) /\ text[i] = "\"" THEN ScanString(text, i + 1, << >>)
    ELSE ParseError(i)

\* the first position from i on that holds no whitespace
RECURSIVE SkipWs(_, _)
SkipWs(text, i) ==
    IF i <= Len(text) /\ text[i] \in { " ", "\n", "\t" }
    THEN Strict(LAMBDA j : SkipWs(text, j), i + 1)
    ELSE i

Holds(text, i, c) == i <= Len(text) /\ text[i] = c

\* the members of an object, i being the place of the next key; a repeated key
\* keeps its last value
RECURSIVE ParseMembers(_, _, _)
ParseMembers(text, i, d) ==
    LET k == Strict(LAMBDA j : ParseString(text, j), i)
        colon == Strict(LAMBDA j : SkipWs(text, j), k.next)
        v == Strict(LAMBDA j : ParseString(text, SkipWs(text, j)), colon + 1)
        e == Strict(LAMBDA j : SkipWs(text, j), v.next)
    IN  IF ~ k.ok THEN ParseError(i)
        ELSE IF ~ Holds(text, colon, ":") THEN ParseError(colon)
        ELSE IF ~ v.ok THEN ParseError(colon)
        ELSE IF Holds(text, e, ",")
             THEN Strict(LAMBDA p : ParseMembers(text, p[1], p[2]),
                         << SkipWs(text, e + 1), DictSet(d, k.val, v.val) >>)
        ELSE IF Holds(text, e, "}")
             THEN [ ok |-> TRUE, val |-> DictSet(d, k.val, v.val), next |-> e + 1 ]
        ELSE ParseError(e)

\* json.load(f) of a text that is to hold one object of strings: [ok, val], ok
\* FALSE standing for JSONDecodeError
JsonLoad(text) ==
    LET i == Strict(LAMBDA j : SkipWs(text, j), 1)
        j == Strict(LAMBDA n : SkipWs(text, n), i + 1)
        r == IF ~ Holds(text, i, "{") THEN ParseError(i)
             ELSE IF Holds(text, j, "}")
                  THEN [ ok |-> TRUE, val |-> << >>, next |-> j + 1 ]
             ELSE ParseMembers(text, j, << >>)
    IN  IF r.ok /\ SkipWs(text, r.next) > Len(text)
        THEN [ ok |-> TRUE, val |-> r.val ]
        ELSE [ ok |-> FALSE, val |-> << >> ]

\* the mapping is one entry of strings up to MaxJsonLen long, or up to
\* MaxEntries entries of distinct keys of at most one character
InitPersist ==
    /\ \/ \E k \in JsonStrings, v \in JsonStrings : pm_mapping = << << k, v >> >>
       \/ \E ks \in InjSeqsUpTo(ShortStrings, MaxEntries) :
             pm_mapping \in DictsOver(ks, ShortStrings)
    /\ pm_file = << >>
    /\ pm_loaded = NotLoaded
    /\ pm_pc = "call"
    /\ NormIdle
    /\ MapIdle
    /\ FillIdle
    /\ BatchIdle
    /\ BboxIdle
    /\ GuiIdle
    /\ ExportIdle

PersistFrame ==
    UNCHANGED << normVars, mapVars, fillVars, batchVars, bboxVars, guiVars, exportVars >>

\* save_map, lines 93-94: the file is opened for writing and the text written
SaveMap ==
    /\ pm_pc = "call"
    /\ pm_file' = JsonDump(pm_mapping)
    /\ pm_pc' = "saved"
    /\ UNCHANGED << pm_mapping, pm_loaded >>
    /\ PersistFrame

\* line 93: open(path, 'w') raises, nothing is written
SaveMapFails ==
    /\ pm_pc = "call"
    /\ pm_pc' = "save failed"
    /\ UNCHANGED << pm_mapping, pm_file, pm_loaded >>
    /\ PersistFrame

\* load_map, lines 100-103: {} when there is no file, else json.load of it
LoadMap ==
    /\ pm_pc \in { "call", "saved", "save failed" }
    /\ pm_loaded' = IF pm_file = << >> THEN [ ok |-> TRUE, val |-> << >> ]
                    ELSE JsonLoad(pm_file)
    /\ pm_pc' = IF pm_pc = "saved" THEN "loaded" ELSE "loaded nothing"
    /\ UNCHANGED << pm_mapping, pm_file >>
    /\ PersistFrame

NextPersist == SaveMap \/ SaveMapFails \/ LoadMap

SpecPersist == InitPersist /\ [][NextPersist]_vars

(***************************************************************************)
(* Properties of batch_fill                                                *)
(***************************************************************************)

BatchReturned == bf_pc = "done"

CallsOf(op, k) == { n \in 1..Len(calls) : calls[n].op = op /\ calls[n].pos = k }

RowFailed(k) == \E n \in 1..Len(calls) : calls[n].pos = k /\ ~ calls[n].ok

CountStatus(results, status) ==
    Cardinality({ n \in 1..Len(results) : results[n].status = status })

RowCalls(k) == SelectSeq(calls, LAMBDA c : c.pos = k)

\* the call batch_fill has just made, if this step made one
NewCall == calls'[Len(calls')]

Underscored(t) == [ n \in 1..Len(t) |-> IF t[n] = " " THEN "_" ELSE t[n] ]

\* the name the file of row is to carry: its identifying field as text, or Project
ExpectedName(row) ==
    IF \E c \in 1..Len(row) : row[c][1] = PROJECT_NAME
    THEN Underscored(Str(row[CHOOSE c \in 1..Len(row) : row[c][1] = PROJECT_NAME][2]))
    ELSE << "P", "r", "o", "j", "e", "c", "t" >>

\* the file of the k-th row-result is named name_ordinal.dwg, without a space,
\* and is in the output directory
NamedAfter(k, ordinal) ==
    LET r == report.results[k]
    IN  r.status = "SUCCESS" =>
           /\ r.output_path
                 = ExpectedName(dataframe[k].row) \o << "_" >> \o IntToStr(ordinal)
                      \o << ".", "d", "w", "g" >>
           /\ \A n \in 1..Len(r.output_path) : r.output_path[n] # " "
           /\ DictHas(files, r.output_path)

C16_NamedAfterReportedOrdinal ==
    /\ files # << >> => out_dir_exists
    /\ \A n \in 1..Len(calls) : calls[n].op = "save" => out_dir_exists
    /\ \A k \in 1..Len(report.results) : NamedAfter(k, report.results[k].row_index)

(***************************************************************************)
(* Properties of _normalize and auto_map                                   *)
(***************************************************************************)

\* the columns auto_map has gone through so far
Processed == IF am_pc \in { "loop", "done" } THEN 1..(am_i - 1) ELSE { }

\* the tags whose normalized form is that of column col
ExactTags(col) ==
    { t \in Range(dxf_attributes) : Normalize(t) = Normalize(col) }

\* C7: _normalize is idempotent: normalizing an already normalized name gives the
\* same name, for every input string.
C7_NormalizeIdempotent ==
    norm_pc = "twice" => norm_out2 = norm_out

\* C8: a column whose normalized form equals the normalized form of some tag is
\* bound, by the exact step, to a tag of the input (original spelling) whose
\* normalized form equals the column's, whatever the threshold and the other tags;
\* the three columns of the example are bound to their three tags.
C8_ExactMatchPrecedence ==
    /\ \A i \in Processed :
          ExactTags(df_columns[i]) # { } =>
             /\ am_step[i] = "exact"
             /\ DictHas(mapping, df_columns[i])
             /\ DictGet(mapping, df_columns[i]) \in ExactTags(df_columns[i])
    /\ ( /\ am_pc = "done"
         /\ df_columns = << Project_Name, Address, Power_kW >>
         /\ dxf_attributes = << PROJECTNAME, ADDRESS, POWER_KW >> )
       => mapping = << << Project_Name, PROJECTNAME >>, << Address, ADDRESS >>,
                       << Power_kW, POWER_KW >> >>

\* the example of C8 has run to its end, at the default threshold, with its result
C8_Witness ==
    /\ am_pc = "done"
    /\ fuzzy_threshold = DefaultThreshold
    /\ df_columns = << Project_Name, Address, Power_kW >>
    /\ dxf_attributes = << PROJECTNAME, ADDRESS, POWER_KW >>
    /\ am_step = << "exact", "exact", "exact" >>
    /\ Len(mapping) = 3

\* C9: for column Description and tag DESC at threshold 70 the two normalized
\* forms are equal, the binding is made by the exact step, and the result is
\* {Description -> DESC}.
C9_DescriptionBoundByExactStep ==
    ( /\ am_pc = "done"
      /\ fuzzy_threshold = DefaultThreshold
      /\ df_columns = << Description >>
      /\ dxf_attributes = << DESC >> )
    => /\ NormalizeStr(Description) = NormalizeStr(DESC)
       /\ am_step = << "exact" >>
       /\ mapping = << << Description, DESC >> >>

\* the score of column col against tag t
ScoreOf(col, t) == Ratio(Normalize(col), Normalize(t))

\* tag t scores best for column col among the tags of the input
IsBestTag(col, t) ==
    /\ t \in Range(dxf_attributes)
    /\ \A u \in Range(dxf_attributes) : ~ ScoreAbove(ScoreOf(col, u), ScoreOf(col, t))

\* C10: a column with no exact normalized match, the tag list not being empty, is
\* bound if and only if its best score is >= the threshold, and then to a
\* best-scoring tag: a best score equal to the threshold binds, a lower one does
\* not.
C10_ThresholdBoundary ==
    \A i \in Processed :
       LET col == df_columns[i]
       IN  ( ExactTags(col) = { } /\ dxf_attributes # << >> ) =>
              \A t \in Range(dxf_attributes) :
                 IsBestTag(col, t) =>
                    /\ DictHas(mapping, col) <=>
                          ( 100 * ScoreOf(col, t).num >=
                               100 * fuzzy_threshold * ScoreOf(col, t).den )
                    /\ DictHas(mapping, col) => IsBestTag(col, DictGet(mapping, col))

\* a column whose best score is exactly the default threshold has been bound, by
\* the fuzzy step
C10_Witness ==
    /\ am_pc = "done"
    /\ fuzzy_threshold = DefaultThreshold
    /\ \E i \in 1..Len(df_columns) :
          /\ am_step[i] = "fuzzy"
          /\ DictHas(mapping, df_columns[i])
          /\ LET r == ScoreOf(df_columns[i], DictGet(mapping, df_columns[i]))
             IN  r.num = fuzzy_threshold * r.den

\* the same column is left without an entry when the threshold is one point above
\* its best score
C10_OnePointBelow ==
    /\ am_pc = "done"
    /\ fuzzy_threshold = DefaultThreshold + 1
    /\ \E i \in 1..Len(df_columns) :
          /\ am_step[i] = "none"
          /\ ~ DictHas(mapping, df_columns[i])
          /\ \E t \in Range(dxf_attributes) :
                /\ IsBestTag(df_columns[i], t)
                /\ ScoreOf(df_columns[i], t).num
                      = (fuzzy_threshold - 1) * ScoreOf(df_columns[i], t).den

\* the place of tag t in the input tag sequence
TagIndex(t) == CHOOSE p \in 1..Len(dxf_attributes) : dxf_attributes[p] = t

\* tags t and u are equally good for column col: the same score (this is so when
\* they have the same normalized form)
SameScore(col, t, u) ==
    ScoreOf(col, t).num * ScoreOf(col, u).den = ScoreOf(col, u).num * ScoreOf(col, t).den

\* C11: a column is bound to the first, in the input tag sequence, of the tags
\* that are equally best for it: no tag before the bound one ties with it on the
\* score or has the same normalized form.
C11_FirstInOrderTieBreak ==
    am_pc = "done" =>
       \A i \in 1..Len(df_columns) :
          DictHas(mapping, df_columns[i]) =>
             LET t == DictGet(mapping, df_columns[i])
             IN  \A q \in 1..(TagIndex(t) - 1) :
                    ~ SameScore(df_columns[i], t, dxf_attributes[q])

\* the part of C11 the code keeps: of the tags that tie on the score with
\* different normalized forms, the first one is bound
C11_FirstAmongDistinctForms ==
    am_pc = "done" =>
       \A i \in 1..Len(df_columns) :
          DictHas(mapping, df_columns[i]) =>
             LET t == DictGet(mapping, df_columns[i])
             IN  \A q \in 1..(TagIndex(t) - 1) :
                    SameScore(df_columns[i], t, dxf_attributes[q])
                       => \E r \in 1..q : Normalize(dxf_attributes[r]) = Normalize(t)

(***************************************************************************)
(* Properties of _compute_attrib_bbox                                      *)
(***************************************************************************)

\* the horizontal extent of the reference heuristic, w being 5 * h
XExtent(x, w, ha) ==
    CASE ha = 1 -> << x - w \div 2, x + w \div 2 >>
      [] ha = 2 -> << x - w, x >>
      [] OTHER -> << x, x + w >>

\* its vertical extent
YExtent(y, h, va) ==
    CASE va = 2 -> << y - h \div 2, y + h \div 2 >>
      [] va = 3 -> << y - h, y >>
      [] OTHER -> << y, y + h >>

\* C12: _compute_attrib_bbox returns the box of the reference heuristic for every
\* height, insertion point and pair of alignment codes, an unrecognized
\* horizontal code giving the left extent and an unrecognized vertical code the
\* baseline extent; height 2.5, right, top at (100, 50) gives
\* (87.5, 47.5, 100, 50).
C12_BboxIsReferenceHeuristic ==
    bb_pc = "done" =>
       /\ LET xe == XExtent(bb_attrib.insert[1], 5 * bb_attrib.height, bb_attrib.halign)
              ye == YExtent(bb_attrib.insert[2], bb_attrib.height, bb_attrib.valign)
          IN  bb_out = << xe[1], ye[1], xe[2], ye[2] >>
       /\ bb_attrib = Geometry(800, 400, 20, 2, 3) => bb_out = << 700, 380, 800, 400 >>

\* the box of the example has been computed
C12_Witness ==
    /\ bb_pc = "done"
    /\ bb_attrib = Geometry(800, 400, 20, 2, 3)
    /\ bb_out = << 700, 380, 800, 400 >>

\* the box of an attribute with an unrecognized code on both axes has been computed
C12_WitnessUnrecognized ==
    /\ bb_pc = "done"
    /\ bb_attrib.halign = 4
    /\ bb_attrib.valign = 4
    /\ bb_attrib.height = 20
    /\ bb_out = << bb_attrib.insert[1], bb_attrib.insert[2],
                   bb_attrib.insert[1] + 100, bb_attrib.insert[2] + 20 >>

(***************************************************************************)
(* Properties of fill_document                                             *)
(***************************************************************************)

\* the first call has returned
FillReturned == fd_pc \in { "once", "twice" }

\* the row values of the mapping entries bound to tag
ValuesFor(tag) ==
    { RowGet(fd_row, fd_mapping[j][1]) :
         j \in { k \in 1..Len(fd_mapping) : fd_mapping[k][2] = tag } }

\* the texts, INSERT by INSERT, of the fields of doc that carry tag
TextsOf(doc, tag) ==
    [ i \in 1..Len(doc) |->
        SelectSeq(doc[i].attribs, LAMBDA f : f.tag = tag) ]

\* C5 as claimed: a second call with the same mapping and row on the document the
\* first call returned produces no changed-field record and changes no text, for
\* every mapping, two columns bound to one tag included.
C5_FillIdempotentAnyMapping ==
    fd_pc = "twice" =>
       /\ fd_second.changed = << >>
       /\ fd_second.doc = fd_first.doc

\* the columns bound to one tag carry, in this row, values that are equal after
\* trimming (missing values aside)
OneValuePerTag ==
    \A j, k \in 1..Len(fd_mapping) :
       LET v == RowGet(fd_row, fd_mapping[j][1])
           w == RowGet(fd_row, fd_mapping[k][1])
       IN  ( fd_mapping[j][2] = fd_mapping[k][2] /\ ~ IsNa(v) /\ ~ IsNa(w) )
              => StripText(Str(v)) = StripText(Str(w))

\* C5 amended: the second call leaves every field text as the first call left it,
\* for every mapping; it produces no changed-field record when the columns bound
\* to one tag carry values equal after trimming (so whenever no two columns are
\* bound to the same tag).
C5_FillIdempotent ==
    fd_pc = "twice" =>
       /\ fd_second.doc = fd_first.doc
       /\ ~ fd_second.raised
       /\ OneValuePerTag => fd_second.changed = << >>

\* a second call has returned after a first call that wrote a field, with two
\* columns bound to the tag it wrote
C5_Witness ==
    /\ fd_pc = "twice"
    /\ fd_first.changed # << >>
    /\ fd_second.changed = << >>
    /\ \E j, k \in 1..Len(fd_mapping) :
          /\ j # k
          /\ fd_mapping[j][2] = fd_mapping[k][2]
          /\ fd_mapping[j][2] = fd_first.changed[1].attribute_tag
          /\ ~ IsNa(RowGet(fd_row, fd_mapping[j][1]))
          /\ ~ IsNa(RowGet(fd_row, fd_mapping[k][1]))

\* a value that the claim counts as missing: None (also for an absent key), NaN,
\* or the empty string
IsMissingOrEmpty(value) == IsNa(value) \/ value = StrVal(<< >>)

\* C6: a mapping entry whose column is absent from the row, or whose value is
\* null/NaN or the empty string, leaves the field with its tag unchanged and emits
\* no record: a tag bound only by such entries keeps its texts and has no record.
C6_MissingOrEmptySkipped ==
    FillReturned =>
       \A tag \in Range(FillTags) :
          ( ValuesFor(tag) # { } /\ \A v \in ValuesFor(tag) : IsMissingOrEmpty(v) )
             => /\ TextsOf(fd_first.doc, tag) = TextsOf(fd_doc, tag)
                /\ \A r \in Range(fd_first.changed) : r.attribute_tag # tag

\* tag is the target of a mapping entry whose row value is present and not missing
Targeted(tag) ==
    \E j \in 1..Len(fd_mapping) :
       fd_mapping[j][2] = tag /\ ~ IsNa(RowGet(fd_row, fd_mapping[j][1]))

\* document after has the INSERTs and fields of document before, each with its
\* tag and geometry, and with its text unless its tag is targeted
FrameKept(before, after) ==
    /\ Len(after) = Len(before)
    /\ \A i \in 1..Len(before) :
          /\ after[i].name = before[i].name
          /\ Len(after[i].attribs) = Len(before[i].attribs)
          /\ \A a \in 1..Len(before[i].attribs) :
                /\ [ after[i].attribs[a] EXCEPT !.text = << >> ]
                      = [ before[i].attribs[a] EXCEPT !.text = << >> ]
                /\ after[i].attribs[a].text # before[i].attribs[a].text
                      => Targeted(before[i].attribs[a].tag)

\* C13: a call of fill_document, returning or raising, leaves every INSERT with
\* the fields it had (none is created), every field whose tag is not the target
\* of a mapping entry with a present, non-missing value with its text, and the
\* mapping and the row as they were passed.
C13_UnrelatedContentUnchanged ==
    [][ /\ fd_mapping' = fd_mapping
        /\ fd_row' = fd_row
        /\ fd_pc' \in { "once", "raised" } => FrameKept(fd_doc', fd_first'.doc)
        /\ fd_pc' = "twice" => FrameKept(fd_first'.doc, fd_second'.doc) ]_vars

\* a call has written a field of an INSERT that lacks the tag of another mapping
\* entry with a present value, and that has a second field it did not write
C13_Witness ==
    /\ fd_pc = "once"
    /\ fd_first.changed # << >>
    /\ Len(fd_doc) = 1
    /\ \E j \in 1..Len(fd_mapping) :
          /\ ~ IsNa(RowGet(fd_row, fd_mapping[j][1]))
          /\ ~ HasAttrib(fd_doc[1], fd_mapping[j][2])
    /\ \E a \in 1..Len(fd_doc[1].attribs) :
          /\ << 1, a >> # fd_first.changed[1].handle
          /\ fd_first.doc[1].attribs[a] = fd_doc[1].attribs[a]

(***************************************************************************)
(* Degenerate inputs                                                       *)
(***************************************************************************)

\* no INSERT of the document owns a field
NoFieldOwner(doc) == \A i \in 1..Len(doc) : doc[i].attribs = << >>

\* auto_map: an empty mapping for no column or no tag, no entry for a column
\* that matched nothing
DegenerateAutoMap ==
    am_pc = "done" =>
       /\ ( df_columns = << >> \/ dxf_attributes = << >> ) => mapping = << >>
       /\ \A i \in 1..Len(df_columns) :
             am_step[i] = "none" => ~ DictHas(mapping, df_columns[i])

\* C17: auto_map with no column or no tag returns an empty mapping, and a column
\* that matches no tag has no entry; fill_document with an empty mapping, or on
\* a document none of whose INSERTs owns a field, does not raise and returns the
\* document unchanged with an empty record list.
C17_DegenerateInputsNoError ==
    /\ DegenerateAutoMap
    /\ ( fd_pc \in { "once", "raised", "twice" }
         /\ ( fd_mapping = << >> \/ NoFieldOwner(fd_doc) ) )
       => /\ fd_pc # "raised"
          /\ ~ fd_first.raised
          /\ fd_first.doc = fd_doc
          /\ fd_first.changed = << >>

\* the part of C17 the code keeps: the same, fill_document being given a row
\* whose mapped values are not lists
C17_DegenerateInputsScalarRow ==
    /\ DegenerateAutoMap
    /\ ( fd_pc \in { "once", "raised", "twice" }
         /\ ( fd_mapping = << >>
              \/ ( /\ NoFieldOwner(fd_doc)
                   /\ \A j \in 1..Len(fd_mapping) :
                         ~ IsNaRaises(RowGet(fd_row, fd_mapping[j][1])) ) ) )
       => /\ fd_pc # "raised"
          /\ ~ fd_first.raised
          /\ fd_first.doc = fd_doc
          /\ fd_first.changed = << >>

(***************************************************************************)
(* Properties of _preview_document                                         *)
(***************************************************************************)

\* C18: in the preview a failure of load_dwg or of fill_document is not turned
\* into a result: it reaches the except of _preview_document as the exception
\* it is, is shown to the user, and leaves current_doc, current_mapping and the
\* changed_entities of the previous preview as they were.
C18_PreviewFailurePropagates ==
    /\ pv_exc \in { "load failed", "fill failed" } =>
          /\ pv_pc \in { "except", "idle" }
          /\ pv_pc = "idle" => pv_popup = pv_exc
          /\ Snapshot = pv_before
    /\ pv_pc = "render" => pv_exc = "absent"

\* a preview failed in fill_document and was reported, the list of an earlier
\* preview being kept
C18_Witness ==
    /\ pv_pc = "idle"
    /\ pv_popup = "fill failed"
    /\ changed_entities # << >>
    /\ changed_entities = pv_before.changed_entities

\* the same for a failure of load_dwg, after a preview that succeeded
C18_WitnessLoad ==
    /\ pv_pc = "idle"
    /\ pv_count = MaxPreviews
    /\ pv_popup = "load failed"
    /\ changed_entities # << >>

(***************************************************************************)
(* Properties of export_pdf                                                *)
(***************************************************************************)

\* a call made while the bridge was not available returned False and opened no
\* document
UnavailableDegrades ==
    \A n \in 1..Len(ex_log) :
       ~ ex_log[n].available =>
          /\ ex_log[n].outcome = "False"
          /\ "opened" \notin ex_log[n].events
          /\ "open failed" \notin ex_log[n].events

\* C19: with the bridge not available both export_pdf methods return False
\* without raising and without opening a document; a call in which opening or
\* plotting failed returns False as well, it does not raise.
C19_ExportDegradesGracefully ==
    /\ UnavailableDegrades
    /\ ~ is_available => ex_doc = "none" /\ ex_pc \in { "idle", "bridge" }
    /\ \A n \in 1..Len(ex_log) :
          ( "open failed" \in ex_log[n].events \/ "plot failed" \in ex_log[n].events )
             => ex_log[n].outcome = "False"

\* the part of C19 the code keeps: the same, for the calls in which closing the
\* document did not fail
C19_ExportDegradesUnlessCloseFails ==
    /\ UnavailableDegrades
    /\ ~ is_available => ex_doc = "none" /\ ex_pc \in { "idle", "bridge" }
    /\ \A n \in 1..Len(ex_log) :
          ( /\ "open failed" \in ex_log[n].events \/ "plot failed" \in ex_log[n].events
            /\ "close failed" \notin ex_log[n].events )
             => ex_log[n].outcome = "False"

(***************************************************************************)
(* Properties of save_map and load_map                                     *)
(***************************************************************************)

\* C20: load_map of the file save_map wrote for mapping m returns a mapping
\* with the keys and values of m, for every m from names to tags, and save_map
\* leaves m as it was.
C20_SaveLoadRoundTrip ==
    [][ /\ pm_mapping' = pm_mapping
        /\ pm_pc' = "loaded" =>
              /\ pm_loaded'.ok
              /\ pm_loaded'.val = pm_mapping ]_vars

\* a mapping of two entries whose strings hold a quote or a backslash and a
\* line break has been written and read back
C20_Witness ==
    /\ pm_pc = "loaded"
    /\ Len(pm_mapping) = 2
    /\ pm_loaded.val = pm_mapping
    /\ \E n \in 1..2 : pm_mapping[n][1] \in { << "\"" >>, << "\\" >> }
    /\ \E n \in 1..2 : pm_mapping[n][2] = << "\n" >>

(***************************************************************************)
(* Properties of the loop body of fill_document                            *)
(***************************************************************************)

\* the pair the step is about, its value, and the field get_attrib gives
StepInsert == fd_first.doc[PairInsert(fd_n')]
StepTag == PairEntry(fd_n')[2]
StepValue == RowGet(fd_row, PairEntry(fd_n')[1])
StepField == AttribIndex(StepInsert, StepTag)
StepDiffers == StripText(StepInsert.attribs[StepField].text) # StripText(Str(StepValue))
StepTextAfter == fd_first'.doc[PairInsert(fd_n')].attribs[StepField].text

\* what C21 says of one pair whose value is of one of the given kinds
OverwriteIffTrimmedDiffer(kinds) ==
    ( /\ fd_n' = fd_n + 1
      /\ StepValue.kind \in kinds
      /\ HasAttrib(StepInsert, StepTag) )
    => IF StepDiffers
       THEN /\ StepTextAfter = Str(StepValue)
            /\ Len(fd_first'.changed) = Len(fd_first.changed) + 1
            /\ SubSeq(fd_first'.changed, 1, Len(fd_first.changed)) = fd_first.changed
       ELSE /\ StepTextAfter = StepInsert.attribs[StepField].text
            /\ fd_first'.changed = fd_first.changed

\* C21: for a mapping entry whose value is present and not missing and an INSERT
\* that has the tag, the field is overwritten with the untrimmed str(value) and
\* exactly one record is emitted when the trimmed texts differ, and the field
\* and the list are left as they were when they are equal.
C21_OverwriteIffTrimmedDiffer ==
    [][ OverwriteIffTrimmedDiffer({ "str", "list" }) ]_vars

\* the same for the values that are strings
C21_ScalarOverwriteIffTrimmedDiffer ==
    [][ OverwriteIffTrimmedDiffer({ "str" }) ]_vars

(***************************************************************************)
(* Properties of the records of fill_document                              *)
(***************************************************************************)

\* the places in the returned list of the records emitted for field a of INSERT i
RecordsOf(i, a) ==
    { k \in 1..Len(fd_first.changed) : fd_first.changed[k].handle = << i, a >> }

\* C22: when fill_document returns, every field whose text differs from its text
\* before the call has a record naming its tag and its block, the last record
\* emitted for a field carries the field's final text, and a field with no
\* record has the text it had; two columns bound to one tag and two INSERTs
\* with the same tag included.
C22_RecordsAgreeWithDocument ==
    fd_pc = "once" =>
       \A i \in 1..Len(fd_doc) : \A a \in 1..Len(fd_doc[i].attribs) :
          LET before == fd_doc[i].attribs[a]
              after == fd_first.doc[i].attribs[a]
              recs == RecordsOf(i, a)
          IN  /\ \A k \in recs :
                    /\ fd_first.changed[k].attribute_tag = after.tag
                    /\ fd_first.changed[k].block_name = fd_first.doc[i].name
              /\ after.text # before.text => recs # { }
              /\ recs # { } =>
                    fd_first.changed[CHOOSE k \in recs : \A m \in recs : m <= k].new_value
                       = after.text
              /\ recs = { } => after.text = before.text

\* two INSERTs carry the tag ADDRESS, two columns are bound to it, and the field
\* of each INSERT was written twice, the last time with a value that has a blank
\* in front
C22_Witness ==
    /\ fd_pc = "once"
    /\ Len(fd_doc) = 2
    /\ fd_mapping = << << Address, ADDRESS >>, << Description, ADDRESS >> >>
    /\ \A i \in 1..2 :
          /\ HasAttrib(fd_doc[i], ADDRESS)
          /\ Cardinality(RecordsOf(i, AttribIndex(fd_doc[i], ADDRESS))) = 2
          /\ fd_first.doc[i].attribs[AttribIndex(fd_doc[i], ADDRESS)].text = << " ", "a" >>

(***************************************************************************)
(* Properties of the output files of batch_fill                            *)
(***************************************************************************)

SuccessResults == { k \in 1..Len(report.results) : report.results[k].status = "SUCCESS" }

\* the row whose file has been written and whose result is yet to be appended
SavedNotAppended == IF bf_pc = "append" /\ bf.status = "SUCCESS" THEN 1 ELSE 0

ReturnedRecords(k) ==
    IF \E n \in CallsOf("fill", k) : calls[n].ok
    THEN LET n == CHOOSE c \in CallsOf("fill", k) : calls[c].ok
         IN  Len(FillDocument(calls[n].before, bf_mapping, dataframe[k].row).changed)
    ELSE 0

BothLoaded == current_doc # << >> /\ current_data_df # << >>

\* C25: whenever a template and a table are both loaded, every key of
\* current_mapping is a column of the loaded table and every value is a tag of
\* the loaded template; the mapping batch_fill was last handed is one of them.
C25_MappingFitsLoadedFiles ==
    BothLoaded =>
       \A n \in 1..Len(current_mapping) :
          /\ current_mapping[n][1] \in Range(ColumnsOf(current_data_df))
          /\ current_mapping[n][2] \in Range(GetDxfAttributes(current_doc))

\* a mapping made for one template and one table has been replaced: the other
\* template and the other table are loaded, with a mapping that is not empty,
\* after batch_fill was handed the first one
C25_Witness ==
    /\ current_doc = StampTemplate
    /\ current_data_df # << >>
    /\ ColumnsOf(current_data_df) = << Project_Name, Address >>
    /\ current_mapping # << >>
    /\ bf_mapping = << << Address, ADDRESS >>, << Description, DESC >> >>

(***************************************************************************)
(* Properties of the documents the bridge opens                            *)
(***************************************************************************)

BridgeAtRest == ex_pc = "idle"

\* a step of close_app: it enters a call of close_app in the log
CloseAppStep ==
    /\ Len(ex_log') = Len(ex_log) + 1
    /\ ex_log'[Len(ex_log')].entry = "close_app"

NoHandleAfterCloseApp == CloseAppStep => acad_app' = "none"

\* the calls so far in which doc.Close(False) raised
CloseFailures == { n \in 1..Len(ex_log) : "close failed" \in ex_log[n].events }

\* C26: a document export_pdf or render_preview opened is closed when the
\* operation is over, on the success path and on every failure path after the
\* open, so that between operations no document the bridge opened is open;
\* and after close_app the bridge holds no application.
C26_OpenedDocumentsClosed ==
    /\ [] ( BridgeAtRest => open_docs = 0 )
    /\ [][ NoHandleAfterCloseApp ]_vars

\* C26, what the code does: a document is left open only by a call whose
\* doc.Close(False) raised, the one failure of C19; every other call that
\* opened a document closed it, and close_app lets the application go.
C26_OpenedDocumentsClosedUnlessCloseFails ==
    /\ [] ( BridgeAtRest => open_docs <= Cardinality(CloseFailures) )
    /\ [] ( BridgeAtRest /\ ex_doc = "open" => CloseFailures # { } )
    /\ [] ( \A n \in 1..Len(ex_log) :
               ex_log[n].outcome # "raised" => "close failed" \notin ex_log[n].events )
    /\ [][ NoHandleAfterCloseApp ]_vars

====
